---- MODULE Spec2Model ----
(***************************************************************************)
(* Dworek live-game runtime: the GameManager registry (getGame, loadGame,  *)
(* load, unloadGame, unload), the CallbackLatch join primitive and the     *)
(* location-update packet handler.  Every asynchronous store lookup is a   *)
(* separate step: the synchronous part of a function is one action, each   *)
(* callback is another.                                                    *)
(***************************************************************************)
EXTENDS Integers, Sequences, FiniteSets, TLC

(* ---- bounds of the model ---- *)
NumGames == 2
MaxGet == 2
MaxLoadTasks == 2
MaxPackets == 1
MaxAdds == 3
MaxCycles == 2
MaxTicks == 4
MaxConnects == 2
MaxEvents == 4
MaxTeamCalls == 2

GameIds == 1..NumGames
GetIds == 1..MaxGet
TaskIds == 1..MaxLoadTasks
PacketIds == 1..MaxPackets

(* GameModel.getStage: the stage numbers of the store; 1 is the active one *)
Stages == {0, 1, 2}
StageActive == 1

NoInst == 0

VARIABLES
    games,      \* GameManager.games: sequence of loaded Game instances
    nextInst,   \* identity of the next Game object that `new Game` creates
    gg,         \* getGame calls: position and callback record of each
    lt,         \* loadGame calls: position and callback record of each
    la,         \* the load() call: position, calledBack flag, latch
    pkt,        \* location-update packets: position of the handler for each
    live,       \* LiveUser location of each user, per Game instance
    bc,         \* the broadcastData cycle: flags, latches, lookups in flight
    members,    \* game.userManager.users of each Game instance
    un,         \* unloadGame: the Game instances whose getName lookup is in flight
    cl,         \* a CallbackLatch driven by a caller, with the history of its cycles
    sd,         \* the sendGameData call: flags, latch, lookups in flight, packets sent
    vz,         \* two live users of one game and what isVisibleFor answered for them
    lu,         \* one LiveUser with the clock: stored location, its time, the reads
    rd,         \* the Redis module: ready flag, client, connect calls, client events
    tm          \* addGameTeam calls: position and callback record of each

vars == <<games, nextInst, gg, lt, la, pkt, live, bc, members, un, cl, sd, vz, lu,
          rd, tm>>

(* ---- CallbackLatch ---- *)
NewLatch == [pending |-> 0, resolved |-> 0, cont |-> FALSE, fired |-> FALSE]

LatchAdd(l) == [l EXCEPT !.pending = @ + 1]

\* a latch that counts as satisfied after its first resolve
LatchSatisfiedAny(l) == l.resolved >= 1

LatchSatisfied(l) == l.resolved = l.pending

\* does resolve() invoke the continuation of latch l
LatchResolveFires(l) ==
    LET r == [l EXCEPT !.resolved = @ + 1]
    IN  LatchSatisfied(r) /\ r.cont /\ ~r.fired

LatchResolve(l) ==
    LET r == [l EXCEPT !.resolved = @ + 1]
    IN  IF LatchResolveFires(l) THEN [r EXCEPT !.fired = TRUE] ELSE r

\* does then(continuation) invoke the continuation at once
LatchThenFires(l) == LatchSatisfied(l) /\ ~l.fired

LatchThen(l) ==
    IF LatchThenFires(l) THEN [l EXCEPT !.cont = TRUE, !.fired = TRUE]
    ELSE [l EXCEPT !.cont = TRUE]

\* a reset that keeps the fired flag
LatchIdentityKeepsFired(l) == [NewLatch EXCEPT !.fired = l.fired]

LatchIdentity(l) == NewLatch

\* a caller of one latch: how often its continuation ran in the current
\* cycle, the counts when it ran, the pending count when then() was called,
\* whether every add() came before the first resolve(), and the counts of
\* the cycle before the last identity()
NewClient ==
    [latch |-> NewLatch, fires |-> 0, firedAt |-> -1, pendAt |-> -1,
     thenAt |-> -1, ordered |-> TRUE, cycle |-> 1,
     prevAdds |-> 0, prevResolves |-> 0, prevFired |-> FALSE]

(* ---- GameManager: the games list ---- *)
NewGame(g, i) == [id |-> g, inst |-> i]

\* Game.isGame over the list: the positions holding a game of identity g
GameIndexes(g) == {i \in 1..Len(games) : games[i].id = g}

MinOf(S) == CHOOSE x \in S : \A y \in S : x <= y

\* a lookup that never finds the game in the list
GetLoadedGameNever(g) == NoInst

\* getLoadedGame: the first entry of the list with that identity, or none
GetLoadedGame(g) ==
    IF GameIndexes(g) = {} THEN NoInst ELSE games[MinOf(GameIndexes(g))].inst

RemoveAt(s, k) == [i \in 1..(Len(s) - 1) |-> IF i < k THEN s[i] ELSE s[i + 1]]

\* unloadGame: splice the first entry with that identity out of the list
UnloadGameList(s, g) ==
    LET idx == {i \in 1..Len(s) : s[i].id = g}
    IN  IF idx = {} THEN s ELSE RemoveAt(s, MinOf(idx))

\* unloadGame: the getName lookups in flight once it returns; one is issued
\* for the entry that is removed
UnloadGameNames(s, g, n) ==
    LET idx == {i \in 1..Len(s) : s[i].id = g}
    IN  IF idx = {} THEN n ELSE n \cup {s[MinOf(idx)].inst}

\* an unload that leaves the list as it is
UnloadListKeeps(s) == s

\* unload: clear the list
UnloadList(s) == << >>

(* ---- records of the calls in flight ---- *)
IdleGet ==
    [pc |-> "idle", gid |-> 0, caller |-> 0, res |-> "none", inst |-> NoInst,
     cbs |-> 0, lookups |-> 0, stageAns |-> "none"]

IdleTask ==
    [pc |-> "idle", gid |-> 0, inst |-> NoInst, owner |-> "none",
     res |-> "none", cbs |-> 0, regAtFail |-> FALSE, late |-> FALSE]

IdleLoad ==
    [pc |-> "idle", calledBack |-> FALSE, latch |-> NewLatch,
     cbOk |-> 0, cbErr |-> 0, firstErr |-> 0, failed |-> << >>, n |-> 0,
     busy |-> FALSE]

FreeGet == {c \in GetIds : gg[c].pc = "idle"}
FreeTask == {t \in TaskIds : lt[t].pc = "idle"}

(* ---- location-update handler: the packet record ---- *)
Users == {"u1", "u2"}
\* the users whose sockets send location packets
SessionUsers == {"u1"}
\* the absent coordinate (null)
Null == [none |-> TRUE]

\* raw locations a packet can carry; the last is out of range
RawLocations == {[lat |-> 10, lng |-> 20], [lat |-> 30, lng |-> 40], [lat |-> 95, lng |-> 0]}

\* Coordinate.parse: a coordinate, or null when the raw value is rejected
CoordinateParse(raw) ==
    IF raw.lat >= -90 /\ raw.lat <= 90 /\ raw.lng >= -180 /\ raw.lng <= 180
    THEN [latitude |-> raw.lat, longitude |-> raw.lng]
    ELSE Null

NewPacket ==
    [pc |-> "new", hasGame |-> FALSE, hasLoc |-> FALSE, auth |-> FALSE,
     user |-> "u1", gid |-> 0, coord |-> Null,
     calledBack |-> FALSE, latch |-> NewLatch,
     stageBr |-> "none", roleBr |-> "none", liveBr |-> "none",
     liveGame |-> NoInst, errs |-> 0, upd |-> 0, updCoord |-> Null,
     lookups |-> 0, parsed |-> FALSE,
     stageAns |-> "none", roleAns |-> "none"]

\* sendPacket(MESSAGE_RESPONSE, ...): one more error notification on the socket
SendMessageResponse(r) == [r EXCEPT !.errs = @ + 1]

\* a notifier without the calledBack guard
CallbackErrorUnguarded(r) == [SendMessageResponse(r) EXCEPT !.calledBack = TRUE]

\* callbackError: notify the socket unless that was done before
CallbackError(r) ==
    IF r.calledBack THEN r
    ELSE [SendMessageResponse(r) EXCEPT !.calledBack = TRUE]

\* a resolve that runs the continuation without waiting for the other branches
HandlerResolveEarly(r) ==
    IF r.pc = "join"
    THEN [r EXCEPT !.latch = LatchResolve(r.latch), !.pc = "getUser",
                   !.lookups = @ + 1]
    ELSE [r EXCEPT !.latch = LatchResolve(r.latch)]

\* latch.resolve() of a validation branch; the continuation asks the live
\* game for the live user
HandlerResolve(r) ==
    IF LatchResolveFires(r.latch)
    THEN [r EXCEPT !.latch = LatchResolve(r.latch), !.pc = "getUser",
                   !.lookups = @ + 1]
    ELSE [r EXCEPT !.latch = LatchResolve(r.latch)]

\* callback of Core.gameController.getGame in the handler
HandlerLiveGame(r, res, inst) ==
    IF res # "game"
    THEN CallbackError([r EXCEPT !.liveBr = "fail"])
    ELSE HandlerResolve([r EXCEPT !.liveBr = "ok", !.liveGame = inst])

(* ---- GameManager.sendGameData: the record of the call ---- *)
Sockets == {"s1", "s2"}

\* the values the sockets parameter can have: undefined, one socket, an array
RawSockets ==
    {[kind |-> "undefined", val |-> << >>], [kind |-> "socket", val |-> <<"s1">>],
     [kind |-> "array", val |-> << >>], [kind |-> "array", val |-> <<"s1">>],
     [kind |-> "array", val |-> <<"s1", "s2">>]}

\* a conversion that does not wrap a single socket
SocketsArrayNoWrap(raw) == IF raw.kind = "array" THEN raw.val ELSE << >>

\* the sockets parameter converted to an array
SocketsArray(raw) ==
    IF raw.kind = "undefined" THEN << >>
    ELSE IF raw.kind # "array" THEN <<raw.val[1]>>
    ELSE raw.val

\* the factory costs calculateFactoryCost can answer
Costs == {1, 2}

\* var gameData = {}
NoGameData == [k \in {} |-> 0]

\* gameData with the value v under the key k ("canBuild" and "cost" stand
\* for factory.canBuild and factory.cost)
SetData(d, k, v) == [x \in DOMAIN d \cup {k} |-> IF x = k THEN v ELSE d[x]]

IdleSend ==
    [pc |-> "idle", gid |-> 0, user |-> "u1",
     data |-> NoGameData, sent |-> << >>, stage |-> 0, player |-> FALSE, cost |-> 0,
     given |-> [kind |-> "undefined", val |-> << >>], sockets |-> << >>,
     calledBack |-> FALSE, latch |-> NewLatch, stageAns |-> "none",
     userBr |-> "none", gameBr |-> "none", userLk |-> "none", costBr |-> "none",
     liveGame |-> NoInst, cbOk |-> 0, cbErr |-> 0,
     sends |-> 0, out |-> << >>, openAtSend |-> FALSE]

\* the sendGameData call of getGame calls
SendCaller == -1

\* a lookup of the call is in flight
SendOpen(r) ==
    \/ r.pc = "stage"
    \/ "wait" \in {r.userBr, r.gameBr, r.userLk, r.costBr}

\* the inner function sendGameData: one packet to each socket, or one to the
\* user when there is no socket
SendPacket(r) ==
    [r EXCEPT !.sends = @ + 1,
              !.sent = Append(@, r.data),
              !.openAtSend = @ \/ SendOpen(r),
              !.out = @ \o (IF Len(r.sockets) > 0
                            THEN [k \in 1..Len(r.sockets) |->
                                    [kind |-> "socket", to |-> r.sockets[k]]]
                            ELSE <<[kind |-> "user", to |-> r.user]>>)]

\* an error report that does not test calledBack
SendErrorUnguarded(r) == [r EXCEPT !.cbErr = @ + 1, !.calledBack = TRUE]

\* the guarded callback(err) that every lookup of sendGameData shares
SendError(r) ==
    [r EXCEPT !.cbErr = IF r.calledBack THEN @ ELSE @ + 1, !.calledBack = TRUE]

\* latch.resolve(); the continuation sends the game data
SendResolve(r) ==
    IF LatchResolveFires(r.latch)
    THEN SendPacket([r EXCEPT !.latch = LatchResolve(@)])
    ELSE [r EXCEPT !.latch = LatchResolve(@)]

\* a user state callback that reports the special flag as canBuild
SendCanBuildSpecial(r, userState) ==
    [r EXCEPT !.data = SetData(@, "canBuild", userState.special)]

\* _.set(gameData, 'factory.canBuild', userState.player)
SendCanBuild(r, userState) ==
    [r EXCEPT !.data = SetData(@, "canBuild", userState.player)]

\* _.set(gameData, 'factory.cost', cost)
SendCost(r, cost) == [r EXCEPT !.data = SetData(@, "cost", cost)]

\* gameData.stage = gameStage
SendSetStage(r, gameStage) == [r EXCEPT !.data = SetData(@, "stage", gameStage)]

\* a getGame callback that resolves its branch before it adds the live user
\* lookup
SendLiveGameResolveFirst(r, res, inst) ==
    IF res = "err" THEN SendError([r EXCEPT !.gameBr = "err"])
    ELSE IF res = "null" THEN SendResolve([r EXCEPT !.gameBr = "null"])
    ELSE LET r1 == SendResolve([r EXCEPT !.gameBr = "ok", !.liveGame = inst])
         IN  [r1 EXCEPT !.latch = LatchAdd(@), !.userLk = "wait"]

\* callback of self.getGame in sendGameData
SendLiveGame(r, res, inst) ==
    IF res = "err" THEN SendError([r EXCEPT !.gameBr = "err"])
    ELSE IF res = "null" THEN SendResolve([r EXCEPT !.gameBr = "null"])
    ELSE SendResolve([r EXCEPT !.gameBr = "ok", !.liveGame = inst,
                               !.latch = LatchAdd(@), !.userLk = "wait"])

\* the caller's callback of getGame call c, given (err, result)
GetGameCallback(c, res, inst) ==
    IF gg[c].caller = 0 THEN pkt' = pkt /\ sd' = sd
    ELSE IF gg[c].caller = SendCaller
    THEN pkt' = pkt /\ sd' = SendLiveGame(sd, res, inst)
    ELSE /\ pkt' = [pkt EXCEPT ![gg[c].caller] = HandlerLiveGame(@, res, inst)]
         /\ sd' = sd

(* ---- GameManager.broadcastData: the record of a cycle ---- *)
IdleBroadcast ==
    [pc |-> "idle", calledBack |-> FALSE, latch |-> NewLatch,
     cbOk |-> 0, cbErr |-> 0, view |-> << >>, pair |-> << >>]

(* ---- LiveUser: visibility and location decay ---- *)
Teams == {"t1", "t2"}

\* the role of a live user in its game; a user without a team has "none"
Roles == [player : BOOLEAN, spectator : BOOLEAN, special : BOOLEAN,
          team : Teams \cup {"none"}]

NoRole == [player |-> FALSE, spectator |-> FALSE, special |-> FALSE, team |-> "none"]

HasRole(r) == r.player \/ r.spectator \/ r.special

\* a player that is neither spectator nor special
PlainPlayer(r) == r.player /\ ~r.spectator /\ ~r.special

\* a decision that shows every player to every player
IsVisibleForAnyPlayer(peer, viewer) ==
    /\ peer.id # viewer.id
    /\ HasRole(viewer.role) /\ HasRole(peer.role)
    /\ peer.role.player

\* otherUser.isVisibleFor(user): is live user `peer` shown to live user
\* `viewer`
IsVisibleFor(peer, viewer) ==
    /\ peer.id # viewer.id
    /\ HasRole(viewer.role) /\ HasRole(peer.role)
    /\ IF viewer.role.spectator \/ (viewer.role.special /\ ~viewer.role.player)
       THEN peer.role.player
       ELSE /\ viewer.role.player
            /\ viewer.role.team # "none"
            /\ peer.role.team = viewer.role.team

\* two live users of one game, before and after the two decisions
NoPair ==
    [a |-> [id |-> "u1", role |-> NoRole], b |-> [id |-> "u2", role |-> NoRole],
     asked |-> FALSE, ab |-> FALSE, ba |-> FALSE]

\* config.game.locationDecayTime, in milliseconds
LocationDecayTime == 30 * 1000

\* the steps by which the clock moves in the model
TickSteps == {1, LocationDecayTime - 1}

\* a live user without a location; the history keeps the last read, the
\* clock at that read, whether no update came after it, and whether a read
\* has found the stored location decayed
NewLiveUser ==
    [coord |-> Null, time |-> 0, now |-> 0, ticks |-> 0,
     read |-> Null, readAt |-> -1, current |-> FALSE, sawDecay |-> FALSE]

\* a read that ignores the age of the location
LiveUserGetLocationNoDecay(l, now) == l.coord

\* LiveUser.getLocation at clock `now`: the stored coordinate unless none is
\* stored or the stored one is older than the decay time
LiveUserGetLocation(l, now) ==
    IF l.coord = Null \/ now - l.time > LocationDecayTime THEN Null ELSE l.coord

\* LiveUser.updateLocation at clock `now`
LiveUserUpdateLocation(l, coordinate, now) ==
    [l EXCEPT !.coord = coordinate, !.time = now, !.current = FALSE]

(* ---- initial state: a fresh GameManager, no call in flight ---- *)
InstIds == 1..(MaxGet + MaxLoadTasks + 1)

(* ---- the Redis module (part_000): the record of its state ---- *)
ConnectIds == 1..MaxConnects

\* the events of a redis client that connect() listens to
ClientEvents == {"connect", "ready", "reconnecting", "error", "end"}

\* a connect() call that has not been made
IdleConnect == [pc |-> "idle", given |-> FALSE, ok |-> 0, err |-> 0, none |-> 0]

\* var redisClient = null; var ready = false; NoClient stands for null
NoClient == 0

NewRedis ==
    [enable |-> TRUE, ready |-> FALSE, client |-> NoClient, hist |-> << >>,
     call |-> [c \in ConnectIds |-> IdleConnect]]

\* callback(null, null) of a connect() call when Redis is disabled
ConnectDisabled(k) ==
    [k EXCEPT !.pc = "disabled", !.none = IF k.given THEN @ + 1 ELSE @]

\* the client event ev reached the handlers: the history of the events
ClientEvent(r, ev) == [r EXCEPT !.hist = Append(@, ev)]

\* redisClient.on('connect')
OnConnect(r, c) == [r EXCEPT !.ready = FALSE]

\* redisClient.on('ready')
OnReady(r, c) ==
    [r EXCEPT !.ready = TRUE,
              !.call[c].ok = IF r.call[c].given THEN @ + 1 ELSE @]

\* a 'reconnecting' handler that leaves the flag alone
OnReconnectingKeeps(r, c) == r

\* redisClient.on('reconnecting')
OnReconnecting(r, c) == [r EXCEPT !.ready = FALSE]

\* redisClient.on('error')
OnError(r, c) ==
    [r EXCEPT !.ready = FALSE,
              !.call[c].err = IF r.call[c].given THEN @ + 1 ELSE @]

\* redisClient.on('end')
OnEnd(r, c) == [r EXCEPT !.ready = FALSE]

\* isReady()
IsReady(r) == r.ready

(* ---- GameTeamDatabase.addGameTeam (User.js): the record of a call ---- *)
TeamCallIds == 1..MaxTeamCalls
TeamNames == {"red", "blue"}

\* an addGameTeam call that has not been made
IdleTeamCall ==
    [pc |-> "idle", gid |-> 0, name |-> "red", cb |-> << >>,
     flushes |-> 0, flushed |-> FALSE, created |-> 0, createdFlushed |-> TRUE]

\* a flush callback that reports the error and goes on to create the team
TeamFlushedNoReturn(r, err) ==
    LET r1 == [r EXCEPT !.pc = "done", !.flushed = TRUE]
        r2 == IF err THEN [r1 EXCEPT !.cb = Append(@, [err |-> "flush", team |-> "undefined"])]
              ELSE r1
    IN  [r2 EXCEPT !.cb = Append(@, [err |-> "null", team |-> "instance"]),
                   !.created = @ + 1, !.createdFlushed = @ /\ r2.flushed]

\* callback of gameTeamModelManager.flushCache in addGameTeam
TeamFlushed(r, err) ==
    LET r1 == [r EXCEPT !.pc = "done", !.flushed = TRUE]
    IN  IF err
        THEN [r1 EXCEPT !.cb = Append(@, [err |-> "flush", team |-> "undefined"])]
        ELSE [r1 EXCEPT !.cb = Append(@, [err |-> "null", team |-> "instance"]),
                        !.created = @ + 1, !.createdFlushed = @ /\ r1.flushed]

\* callback of insertOne in addGameTeam
TeamInserted(r, err) ==
    IF err
    THEN [r EXCEPT !.pc = "done", !.cb = Append(@, [err |-> "insert", team |-> "null"])]
    ELSE [r EXCEPT !.pc = "flush", !.flushes = @ + 1]

Init ==
    /\ games = << >>
    /\ nextInst = 1
    /\ gg = [c \in GetIds |-> IdleGet]
    /\ lt = [t \in TaskIds |-> IdleTask]
    /\ la = IdleLoad
    /\ pkt = [p \in PacketIds |-> NewPacket]
    /\ live = [i \in InstIds |-> [u \in Users |-> Null]]
    /\ bc = IdleBroadcast
    /\ members = [i \in InstIds |-> {}]
    /\ un = {}
    /\ cl = NewClient
    /\ sd = IdleSend
    /\ vz = NoPair
    /\ lu = NewLiveUser
    /\ rd = NewRedis
    /\ tm = [c \in TeamCallIds |-> IdleTeamCall]

(* ---- what the store answered, as the history of a call keeps it ---- *)
StageAnswer(err, stage) ==
    IF err THEN "error" ELSE IF stage = 1 THEN "active" ELSE "inactive"

RoleAnswer(err, userState) ==
    IF err THEN "error"
    ELSE IF userState.player \/ userState.special THEN "plays" ELSE "watches"

(* ---- GameManager.getGame ---- *)
\* record of a getGame call by `caller` (0: called directly) for game g:
\* answered from the list when the game is loaded, otherwise the store is asked
GetGameEntered(c, g, caller) ==
    LET loaded == GetLoadedGame(g)
        base == [IdleGet EXCEPT !.gid = g, !.caller = caller]
    IN  IF loaded # NoInst
        THEN [base EXCEPT !.pc = "done", !.res = "game", !.inst = loaded, !.cbs = 1]
        ELSE [base EXCEPT !.pc = "byId", !.lookups = 1]

\* a direct call of getGame(g)
GetGameCall(g) ==
    /\ FreeGet # {}
    /\ gg' = [gg EXCEPT ![MinOf(FreeGet)] = GetGameEntered(MinOf(FreeGet), g, 0)]
    /\ UNCHANGED <<games, nextInst, lt, la, pkt, live, bc, members, un, cl, sd, vz, lu,
                 rd, tm>>

\* callback of gameModelManager.getGameById inside getGame
GetGameById(c) ==
    /\ gg[c].pc = "byId"
    /\ \E err \in BOOLEAN :
        IF err
        THEN /\ gg' = [gg EXCEPT ![c].pc = "done", ![c].res = "err", ![c].cbs = @ + 1]
             /\ GetGameCallback(c, "err", NoInst)
        ELSE /\ gg' = [gg EXCEPT ![c].pc = "stage", ![c].lookups = @ + 1]
             /\ pkt' = pkt /\ sd' = sd
    /\ UNCHANGED <<games, nextInst, lt, la, live, bc, members, un, cl, vz, lu,
                 rd, tm>>

\* a getGame that registers whatever the stage is
GetGameRegistersAnyStage(err, stage) == ~err

\* does getGame register a new Game for this answer of game.getStage
GetGameRegisters(err, stage) == ~err /\ stage = StageActive

\* callback of game.getStage inside getGame
GetGameStage(c) ==
    /\ gg[c].pc = "stage"
    /\ \E err \in BOOLEAN, stage \in Stages :
        IF GetGameRegisters(err, stage)
        THEN /\ games' = Append(games, NewGame(gg[c].gid, nextInst))
             /\ nextInst' = nextInst + 1
             /\ gg' = [gg EXCEPT ![c].pc = "done", ![c].res = "game",
                                 ![c].inst = nextInst, ![c].cbs = @ + 1,
                                 ![c].stageAns = StageAnswer(err, stage)]
             /\ GetGameCallback(c, "game", nextInst)
        ELSE /\ UNCHANGED <<games, nextInst,
                 rd, tm>>
             /\ gg' = [gg EXCEPT ![c].pc = "done",
                                 ![c].res = IF err THEN "err" ELSE "null",
                                 ![c].cbs = @ + 1,
                                 ![c].stageAns = StageAnswer(err, stage)]
             /\ GetGameCallback(c, IF err THEN "err" ELSE "null", NoInst)
    /\ UNCHANGED <<lt, la, live, bc, members, un, cl, vz, lu,
                 rd, tm>>

(* ---- GameManager.unloadGame, GameManager.unload ---- *)
UnloadGameCall(g) ==
    /\ games' = UnloadGameList(games, g)
    /\ un' = UnloadGameNames(games, g, un)
    /\ UNCHANGED <<nextInst, gg, lt, la, pkt, live, bc, members, cl, sd, vz, lu,
                 rd, tm>>

\* callback of getName inside unloadGame: the name or the failure is only
\* logged
UnloadGameNamed(i) ==
    /\ i \in un
    /\ \E err \in BOOLEAN : un' = un \ {i}
    /\ UNCHANGED <<games, nextInst, gg, lt, la, pkt, live, bc, members, cl, sd, vz, lu,
                 rd, tm>>

UnloadCall ==
    /\ games' = UnloadList(games)
    /\ UNCHANGED <<nextInst, gg, lt, la, pkt, live, bc, members, un, cl, sd, vz, lu,
                 rd, tm>>

(* ---- GameManager.load: the callback it hands to each loadGame ---- *)
\* a join continuation that does not call back
LoadJoinedSilent(l) == l

\* the join continuation of load(): callback(null)
LoadJoined(l) == [l EXCEPT !.cbOk = @ + 1]

\* the same callback without the calledBack guard
LoadGameDoneUnguarded(l, t, err) ==
    IF err
    THEN [l EXCEPT !.cbErr = @ + 1,
                   !.firstErr = IF l.calledBack THEN @ ELSE t,
                   !.calledBack = TRUE, !.failed = Append(@, t)]
    ELSE IF LatchResolveFires(l.latch)
         THEN LoadJoined([l EXCEPT !.latch = LatchResolve(@)])
         ELSE [l EXCEPT !.latch = LatchResolve(@)]

\* a callback that reports success as soon as one game is loaded
LoadGameDoneFirstSuccess(l, t, err) ==
    IF err
    THEN [l EXCEPT !.cbErr = IF l.calledBack THEN @ ELSE @ + 1,
                   !.firstErr = IF l.calledBack THEN @ ELSE t,
                   !.calledBack = TRUE, !.failed = Append(@, t)]
    ELSE IF l.cbOk = 0
         THEN LoadJoined([l EXCEPT !.latch = LatchResolve(@)])
         ELSE [l EXCEPT !.latch = LatchResolve(@)]

\* function(err) given to loadGame for the game of task t
LoadGameDone(l, t, err) ==
    IF err
    THEN [l EXCEPT !.cbErr = IF l.calledBack THEN @ ELSE @ + 1,
                   !.firstErr = IF l.calledBack THEN @ ELSE t,
                   !.calledBack = TRUE, !.failed = Append(@, t)]
    ELSE IF LatchResolveFires(l.latch)
         THEN LoadJoined([l EXCEPT !.latch = LatchResolve(@)])
         ELSE [l EXCEPT !.latch = LatchResolve(@)]

\* the caller's callback of loadGame task t
LoadGameCallback(t, err) ==
    IF lt[t].owner = "load" THEN la' = LoadGameDone(la, t, err) ELSE la' = la

(* ---- GameManager.loadGame ---- *)
\* a direct call of loadGame(g): unload the game if loaded, create the new
\* Game and start loading it
LoadGameCall(g) ==
    /\ FreeTask # {}
    /\ games' = UnloadGameList(games, g)
    /\ lt' = [lt EXCEPT ![MinOf(FreeTask)] =
                [IdleTask EXCEPT !.pc = "load", !.gid = g, !.inst = nextInst,
                                 !.owner = "direct", !.late = (la.pc = "join")]]
    /\ nextInst' = nextInst + 1
    /\ un' = UnloadGameNames(games, g, un)
    /\ UNCHANGED <<gg, la, pkt, live, bc, members, cl, sd, vz, lu,
                 rd, tm>>

\* a loadGame that registers nothing once a sibling of the same load() failed
LoadGameRegisteredUnlessFailed(s, t, err) ==
    IF err \/ la.calledBack THEN s ELSE Append(s, NewGame(lt[t].gid, lt[t].inst))

\* the list after the callback of newGame.load
LoadGameRegistered(s, t, err) ==
    IF err THEN s ELSE Append(s, NewGame(lt[t].gid, lt[t].inst))

\* callback of newGame.load
LoadGameLoaded(t) ==
    /\ lt[t].pc = "load"
    /\ \E err \in BOOLEAN :
        /\ games' = LoadGameRegistered(games, t, err)
        /\ IF err
           THEN /\ lt' = [lt EXCEPT ![t].pc = "done", ![t].res = "err",
                                    ![t].cbs = @ + 1,
                                    ![t].regAtFail = GameIndexes(lt[t].gid) # {}]
                /\ LoadGameCallback(t, TRUE)
           ELSE /\ lt' = [lt EXCEPT ![t].pc = "name"]
                /\ la' = la
    /\ UNCHANGED <<nextInst, gg, pkt, live, bc, members, un, cl, sd, vz, lu,
                 rd, tm>>

\* callback of getName on the new game (the name is only logged)
LoadGameNamed(t) ==
    /\ lt[t].pc = "name"
    /\ lt' = [lt EXCEPT ![t].pc = "done", ![t].res = "ok", ![t].cbs = @ + 1]
    /\ LoadGameCallback(t, FALSE)
    /\ UNCHANGED <<games, nextInst, gg, pkt, live, bc, members, un, cl, sd, vz, lu,
                 rd, tm>>

(* ---- GameManager.load ---- *)
LoadCall ==
    /\ la.pc = "idle"
    /\ la' = [la EXCEPT !.pc = "query"]
    /\ UNCHANGED <<games, nextInst, gg, lt, pkt, live, bc, members, un, cl, sd, vz, lu,
                 rd, tm>>

RECURSIVE SetToSeq(_)
\* the games of the store's answer, in ascending order of identity
SetToSeq(S) == IF S = {} THEN << >> ELSE <<MinOf(S)>> \o SetToSeq(S \ {MinOf(S)})

RECURSIVE LatchAddN(_, _)
LatchAddN(l, n) == IF n = 0 THEN l ELSE LatchAddN(LatchAdd(l), n - 1)

\* the loadGame tasks that load() starts for the games gs, on the free slots
LoadTasks(gs) ==
    LET free == SetToSeq(FreeTask)
        slotOf(t) == CHOOSE k \in 1..Len(gs) : free[k] = t
    IN  [t \in TaskIds |->
            IF \E k \in 1..Len(gs) : free[k] = t
            THEN [IdleTask EXCEPT !.pc = "load", !.gid = gs[slotOf(t)],
                                  !.inst = nextInst + slotOf(t) - 1,
                                  !.owner = "load"]
            ELSE lt[t]]

\* a failed query that returns without calling back
LoadQueryFailedSilent(l) == [l EXCEPT !.pc = "done"]

\* the query of load() failed: callback(err) and return
LoadQueryFailed(l) == [l EXCEPT !.pc = "done", !.cbErr = @ + 1]

\* callback of gameModelManager.getGamesWithStage(1) inside load()
LoadQueried ==
    /\ la.pc = "query"
    /\ \/ /\ la' = LoadQueryFailed(la)
          /\ UNCHANGED <<games, nextInst, lt,
                 rd, tm>>
       \/ \E S \in SUBSET GameIds :
            LET gs == SetToSeq(S)
                l1 == LatchAddN(NewLatch, Len(gs))
                la1 == [la EXCEPT !.pc = "join", !.n = Len(gs),
                                  !.latch = LatchThen(l1),
                                  !.busy = \E t \in TaskIds : lt[t].pc \in {"load", "name"}]
            IN  /\ Len(gs) <= Cardinality(FreeTask)
                /\ games' = UnloadList(games)
                /\ lt' = LoadTasks(gs)
                /\ nextInst' = nextInst + Len(gs)
                /\ la' = IF LatchThenFires(l1) THEN LoadJoined(la1) ELSE la1
    /\ UNCHANGED <<gg, pkt, live, bc, members, un, cl, sd, vz, lu,
                 rd, tm>>

(* ---- the registry on its own ---- *)
NextRegistry ==
    \/ \E g \in GameIds : GetGameCall(g)
    \/ \E c \in GetIds : GetGameById(c)
    \/ \E c \in GetIds : GetGameStage(c)
    \/ \E g \in GameIds : LoadGameCall(g)
    \/ \E t \in TaskIds : LoadGameLoaded(t)
    \/ \E t \in TaskIds : LoadGameNamed(t)
    \/ LoadCall
    \/ LoadQueried
    \/ \E g \in GameIds : UnloadGameCall(g)
    \/ UnloadCall

SpecRegistry == Init /\ [][NextRegistry]_vars

(* ---- LocationUpdateHandler: handler(packet, socket) ---- *)
\* the answers game.getUserState can give
UserStates == [player : BOOLEAN, special : BOOLEAN]

\* a stage check that only looks at the error
StageBranchOkAnyStage(err, stage) == ~err

\* the packet is accepted by the stage branch
StageBranchOk(err, stage) == ~err /\ stage = StageActive

\* the packet is accepted by the role branch
RoleBranchOk(err, userState) == ~err /\ (userState.player \/ userState.special)

\* packets are numbered in the order the handler receives them
Received(p) == pkt[p].pc # "new"

\* a handler that checks the session before the fields of the packet
HandlerEnteredAuthFirst(hasGame, hasLoc, auth, u, g, raw) ==
    LET r == [NewPacket EXCEPT !.hasGame = hasGame, !.hasLoc = hasLoc,
                               !.auth = auth]
    IN  IF ~auth
        THEN [SendMessageResponse(r) EXCEPT !.pc = "done"]
        ELSE IF ~hasGame \/ ~hasLoc
        THEN [CallbackError(r) EXCEPT !.pc = "done"]
        ELSE IF CoordinateParse(raw) = Null
        THEN [CallbackError(r) EXCEPT !.pc = "done", !.parsed = TRUE]
        ELSE [r EXCEPT !.pc = "byId", !.user = u, !.gid = g, !.parsed = TRUE,
                       !.coord = CoordinateParse(raw), !.lookups = 1]

\* a handler that parses the location before it checks the session
HandlerEnteredParseFirst(hasGame, hasLoc, auth, u, g, raw) ==
    LET r == [NewPacket EXCEPT !.hasGame = hasGame, !.hasLoc = hasLoc,
                               !.auth = auth]
    IN  IF ~hasGame \/ ~hasLoc
        THEN [CallbackError(r) EXCEPT !.pc = "done"]
        ELSE IF CoordinateParse(raw) = Null
        THEN [CallbackError(r) EXCEPT !.pc = "done", !.parsed = TRUE]
        ELSE IF ~auth
        THEN [SendMessageResponse(r) EXCEPT !.pc = "done", !.parsed = TRUE]
        ELSE [r EXCEPT !.pc = "byId", !.user = u, !.gid = g, !.parsed = TRUE,
                       !.coord = CoordinateParse(raw), !.lookups = 1]

\* the handler up to its first store lookup: malformed packet, missing
\* session and unparsable location are answered at once
HandlerEntered(hasGame, hasLoc, auth, u, g, raw) ==
    LET r == [NewPacket EXCEPT !.hasGame = hasGame, !.hasLoc = hasLoc,
                               !.auth = auth]
    IN  IF ~hasGame \/ ~hasLoc
        THEN [CallbackError(r) EXCEPT !.pc = "done"]
        ELSE IF ~auth
        THEN [SendMessageResponse(r) EXCEPT !.pc = "done"]
        ELSE IF CoordinateParse(raw) = Null
        THEN [CallbackError(r) EXCEPT !.pc = "done", !.parsed = TRUE]
        ELSE [r EXCEPT !.pc = "byId", !.user = u, !.gid = g, !.parsed = TRUE,
                       !.coord = CoordinateParse(raw), !.lookups = 1]

Receive(p) ==
    /\ pkt[p].pc = "new"
    /\ \A q \in DOMAIN pkt : q < p => Received(q)
    /\ \E hasGame, hasLoc, auth \in BOOLEAN, u \in SessionUsers, g \in GameIds,
          raw \in RawLocations :
        pkt' = [pkt EXCEPT ![p] = HandlerEntered(hasGame, hasLoc, auth, u, g, raw)]
    /\ UNCHANGED <<games, nextInst, gg, lt, la, live, bc, members, un, cl, sd, vz, lu,
                 rd, tm>>

\* the three validation branches are issued and the continuation is set;
\* getGame answers at once when the game is loaded
HandlerJoin(r, loaded) ==
    LET l1 == LatchAdd(NewLatch)
        l2 == LatchAdd(l1)
        l3 == LatchAdd(l2)
        r3 == [r EXCEPT !.pc = "join", !.latch = l3, !.stageBr = "wait",
                        !.roleBr = "wait", !.liveBr = "wait",
                        !.lookups = @ + 2]
        r4 == IF loaded # NoInst THEN HandlerLiveGame(r3, "game", loaded) ELSE r3
    IN  IF LatchThenFires(r4.latch)
        THEN [r4 EXCEPT !.latch = LatchThen(@), !.pc = "getUser", !.lookups = @ + 1]
        ELSE [r4 EXCEPT !.latch = LatchThen(@)]

\* callback of gameModelManager.getGameById in the handler
HandlerGameById(p) ==
    /\ pkt[p].pc = "byId"
    /\ \E res \in {"err", "null", "game"} :
        IF res # "game"
        THEN /\ pkt' = [pkt EXCEPT ![p] = [CallbackError(@) EXCEPT !.pc = "done"]]
             /\ gg' = gg
        ELSE /\ GetLoadedGame(pkt[p].gid) = NoInst => FreeGet # {}
             /\ pkt' = [pkt EXCEPT ![p] = HandlerJoin(@, GetLoadedGame(pkt[p].gid))]
             /\ IF GetLoadedGame(pkt[p].gid) # NoInst
                THEN gg' = gg
                ELSE gg' = [gg EXCEPT ![MinOf(FreeGet)] =
                              GetGameEntered(MinOf(FreeGet), pkt[p].gid, p)]
    /\ UNCHANGED <<games, nextInst, lt, la, live, bc, members, un, cl, sd, vz, lu,
                 rd, tm>>

\* callback of game.getStage in the handler
HandlerStage(p) ==
    /\ pkt[p].stageBr = "wait"
    /\ \E err \in BOOLEAN, stage \in Stages :
        pkt' = [pkt EXCEPT ![p] =
                  IF StageBranchOk(err, stage)
                  THEN HandlerResolve([@ EXCEPT !.stageBr = "ok",
                                                !.stageAns = StageAnswer(err, stage)])
                  ELSE CallbackError([@ EXCEPT !.stageBr = "fail",
                                               !.stageAns = StageAnswer(err, stage)])]
    /\ UNCHANGED <<games, nextInst, gg, lt, la, live, bc, members, un, cl, sd, vz, lu,
                 rd, tm>>

\* callback of game.getUserState in the handler
HandlerUserState(p) ==
    /\ pkt[p].roleBr = "wait"
    /\ \E err \in BOOLEAN, userState \in UserStates :
        pkt' = [pkt EXCEPT ![p] =
                  IF RoleBranchOk(err, userState)
                  THEN HandlerResolve([@ EXCEPT !.roleBr = "ok",
                                                !.roleAns = RoleAnswer(err, userState)])
                  ELSE CallbackError([@ EXCEPT !.roleBr = "fail",
                                               !.roleAns = RoleAnswer(err, userState)])]
    /\ UNCHANGED <<games, nextInst, gg, lt, la, live, bc, members, un, cl, sd, vz, lu,
                 rd, tm>>

\* LiveUser.updateLocation(coordinate) on the live user of u in Game i
UpdateLocation(lv, i, u, coordinate) == [lv EXCEPT ![i][u] = coordinate]

\* callback of liveGame.getUser in the continuation of the latch
HandlerLiveUser(p) ==
    /\ pkt[p].pc = "getUser"
    /\ \E res \in {"err", "null", "user"} :
        IF res # "user"
        THEN /\ pkt' = [pkt EXCEPT ![p] = [CallbackError(@) EXCEPT !.pc = "done"]]
             /\ live' = live
        ELSE /\ pkt' = [pkt EXCEPT ![p].pc = "done", ![p].upd = @ + 1,
                                   ![p].updCoord = pkt[p].coord]
             /\ live' = UpdateLocation(live, pkt[p].liveGame, pkt[p].user, pkt[p].coord)
    /\ UNCHANGED <<games, nextInst, gg, lt, la, bc, members, un, cl, sd, vz, lu,
                 rd, tm>>

\* every lookup issued for packet p has been answered
PacketQuiet(p) ==
    /\ pkt[p].pc \in {"done", "join"}
    /\ pkt[p].stageBr # "wait" /\ pkt[p].roleBr # "wait" /\ pkt[p].liveBr # "wait"

(* ---- the handler with the registry calls it makes ---- *)
NextIngest ==
    \/ \E p \in DOMAIN pkt : Receive(p)
    \/ \E p \in DOMAIN pkt : HandlerGameById(p)
    \/ \E p \in DOMAIN pkt : HandlerStage(p)
    \/ \E p \in DOMAIN pkt : HandlerUserState(p)
    \/ \E c \in GetIds : GetGameById(c)
    \/ \E c \in GetIds : GetGameStage(c)
    \/ \E p \in DOMAIN pkt : HandlerLiveUser(p)

\* the registry when the first packet arrives: empty, or holding one game
\* that an earlier load registered
InitIngest ==
    /\ \/ games = << >> /\ nextInst = 1
       \/ \E g \in GameIds : games = <<NewGame(g, 1)>> /\ nextInst = 2
    /\ gg = [c \in GetIds |-> IdleGet]
    /\ lt = [t \in TaskIds |-> IdleTask]
    /\ la = IdleLoad
    /\ pkt = [p \in PacketIds |-> NewPacket]
    /\ live = [i \in InstIds |-> [u \in Users |-> Null]]
    /\ bc = IdleBroadcast
    /\ members = [i \in InstIds |-> {}]
    /\ un = {}
    /\ cl = NewClient
    /\ sd = IdleSend
    /\ vz = NoPair
    /\ lu = NewLiveUser
    /\ rd = NewRedis
    /\ tm = [c \in TeamCallIds |-> IdleTeamCall]

SpecIngest == InitIngest /\ [][NextIngest]_vars

\* two packets follow one another on the wire
InitPair ==
    /\ \/ games = << >> /\ nextInst = 1
       \/ \E g \in GameIds : games = <<NewGame(g, 1)>> /\ nextInst = 2
    /\ gg = [c \in GetIds |-> IdleGet]
    /\ lt = [t \in TaskIds |-> IdleTask]
    /\ la = IdleLoad
    /\ pkt = [p \in 1..(MaxPackets + 1) |-> NewPacket]
    /\ live = [i \in InstIds |-> [u \in Users |-> Null]]
    /\ bc = IdleBroadcast
    /\ members = [i \in InstIds |-> {}]
    /\ un = {}
    /\ cl = NewClient
    /\ sd = IdleSend
    /\ vz = NoPair
    /\ lu = NewLiveUser
    /\ rd = NewRedis
    /\ tm = [c \in TeamCallIds |-> IdleTeamCall]

SpecIngestPair == InitPair /\ [][NextIngest]_vars

(* ---- GameManager.broadcastData ---- *)
\* the answers userModel.getGameState can give
GameStates == [player : BOOLEAN, spectator : BOOLEAN, special : BOOLEAN]

\* the (game, user) pairs the loops of broadcastData visit
Viewers ==
    {<<games[k].inst, u>> : k \in 1..Len(games), u \in Users} \cap
    {v \in InstIds \X Users : v[2] \in members[v[1]]}

\* the guarded error callback that every lookup of the cycle shares
BroadcastError(b) ==
    [b EXCEPT !.cbErr = IF b.calledBack THEN @ ELSE @ + 1, !.calledBack = TRUE]

\* latch.resolve() on the latch of the cycle; its continuation calls back
\* with null unless an error was called back
BroadcastResolve(b) ==
    [b EXCEPT !.latch = LatchResolve(@),
              !.cbOk = IF LatchResolveFires(b.latch) /\ ~b.calledBack
                       THEN @ + 1 ELSE @]

\* a continuation that sends nothing
BroadcastSendNothing(b, v) == BroadcastResolve(b)

\* a continuation that skips the packet when the users list is empty
BroadcastSendSkipEmpty(b, v) ==
    IF b.view[v].users = << >> THEN BroadcastResolve(b)
    ELSE BroadcastResolve([b EXCEPT !.view[v].packets = Append(@, b.view[v].users)])

\* the continuation that sends GAME_LOCATIONS_UPDATE to viewer v with the
\* users list as it is, and resolves the latch of the cycle
BroadcastSend(b, v) ==
    BroadcastResolve([b EXCEPT !.view[v].packets = Append(@, b.view[v].users)])

\* the continuation of the viewer's latch once the user state is fetched:
\* reset the latch, ask the visibility of every user of the game, set the
\* sending continuation
BroadcastPeers(b, v) ==
    LET peers == IF b.calledBack THEN {} ELSE members[v[1]]
        gl == LatchIdentity(b.view[v].latch)
        b1 == [b EXCEPT !.view[v].latch = LatchThen(gl),
                        !.view[v].st = "peers",
                        !.latch = LatchAddN(@, Cardinality(peers)),
                        !.pair = [q \in DOMAIN b.pair |->
                                    IF q[1] = v /\ q[2] \in peers
                                    THEN "visible" ELSE b.pair[q]]]
    IN  IF LatchThenFires(gl) THEN BroadcastSend(b1, v) ELSE b1

\* broadcastData(callback) up to its first lookups: one getGameState per
\* user of each loaded game
BroadcastCall ==
    /\ bc.pc = "idle"
    /\ LET l == LatchAddN(NewLatch, Cardinality(Viewers))
       IN  bc' = [IdleBroadcast EXCEPT
                    !.pc = "run",
                    !.latch = LatchThen(l),
                    !.cbOk = IF LatchThenFires(l) THEN 1 ELSE 0,
                    !.view = [v \in Viewers |->
                                [st |-> "state",
                                 latch |-> LatchThen(LatchAdd(NewLatch)),
                                 users |-> << >>, packets |-> << >>]],
                    !.pair = [q \in {w \in Viewers \X Users : w[2] \in members[w[1][1]]}
                                |-> "idle"]]
    /\ UNCHANGED <<games, nextInst, gg, lt, la, pkt, live, members, un, cl, sd, vz, lu,
                 rd, tm>>

\* callback of userModel.getGameState for viewer v; the flags showTeamPlayers
\* and showAllPlayers it assigns are read nowhere, so the record of the cycle
\* does not keep them
BroadcastGameState(v) ==
    /\ bc.pc = "run"
    /\ bc.view[v].st = "state"
    /\ \E err \in BOOLEAN, userState \in GameStates :
        IF err
        THEN bc' = BroadcastError([bc EXCEPT !.view[v].st = "failed"])
        ELSE LET b1 == [bc EXCEPT !.view[v].latch = LatchResolve(@)]
             IN  bc' = IF LatchResolveFires(bc.view[v].latch)
                       THEN BroadcastPeers(b1, v)
                       ELSE b1
    /\ UNCHANGED <<games, nextInst, gg, lt, la, pkt, live, members, un, cl, sd, vz, lu,
                 rd, tm>>

\* callback of otherUser.isVisibleFor(user) for viewer q[1] and peer q[2]
BroadcastVisible(q) ==
    /\ bc.pc = "run"
    /\ bc.pair[q] = "visible"
    /\ \E err \in BOOLEAN, visible \in BOOLEAN :
        bc' = IF err THEN BroadcastError([bc EXCEPT !.pair[q] = "error"])
              ELSE IF ~visible THEN BroadcastResolve([bc EXCEPT !.pair[q] = "hidden"])
              ELSE [bc EXCEPT !.pair[q] = "name"]
    /\ UNCHANGED <<games, nextInst, gg, lt, la, pkt, live, members, un, cl, sd, vz, lu,
                 rd, tm>>

\* callback of otherUser.getName; the entry it builds reads `location`, a
\* name the function does not declare: where no global of that name exists
\* the callback ends there with a ReferenceError
BroadcastName(q) ==
    /\ bc.pc = "run"
    /\ bc.pair[q] = "name"
    /\ \E err \in BOOLEAN, locationDefined \in BOOLEAN :
        bc' = IF err THEN BroadcastError([bc EXCEPT !.pair[q] = "nameError"])
              ELSE IF ~locationDefined THEN [bc EXCEPT !.pair[q] = "threw"]
              ELSE LET b1 == [bc EXCEPT !.pair[q] = "listed",
                                        !.view[q[1]].users = Append(@, q[2]),
                                        !.view[q[1]].latch = LatchResolve(@)]
                   IN  IF LatchResolveFires(bc.view[q[1]].latch)
                       THEN BroadcastSend(b1, q[1])
                       ELSE b1
    /\ UNCHANGED <<games, nextInst, gg, lt, la, pkt, live, members, un, cl, sd, vz, lu,
                 rd, tm>>

(* ---- one packet handled while a broadcast cycle runs ---- *)
NextFrame ==
    \/ \E p \in DOMAIN pkt : Receive(p)
    \/ \E p \in DOMAIN pkt : HandlerGameById(p)
    \/ \E p \in DOMAIN pkt : HandlerStage(p)
    \/ \E p \in DOMAIN pkt : HandlerUserState(p)
    \/ \E c \in GetIds : GetGameById(c)
    \/ \E c \in GetIds : GetGameStage(c)
    \/ \E p \in DOMAIN pkt : HandlerLiveUser(p)
    \/ BroadcastCall
    \/ \E v \in DOMAIN bc.view : BroadcastGameState(v)
    \/ \E q \in DOMAIN bc.pair : BroadcastVisible(q)
    \/ \E q \in DOMAIN bc.pair : BroadcastName(q)

\* the registry is empty or holds game 1 with any set of live users
InitFrame ==
    /\ \/ games = << >> /\ nextInst = 1 /\ members = [i \in InstIds |-> {}]
       \/ /\ games = <<NewGame(1, 1)>> /\ nextInst = 2
          /\ \E M \in SUBSET Users :
                members = [i \in InstIds |-> IF i = 1 THEN M ELSE {}]
    /\ gg = [c \in GetIds |-> IdleGet]
    /\ lt = [t \in TaskIds |-> IdleTask]
    /\ la = IdleLoad
    /\ pkt = [p \in {1} |-> NewPacket]
    /\ live = [i \in InstIds |-> [u \in Users |-> Null]]
    /\ bc = IdleBroadcast
    /\ un = {}
    /\ cl = NewClient
    /\ sd = IdleSend
    /\ vz = NoPair
    /\ lu = NewLiveUser
    /\ rd = NewRedis
    /\ tm = [c \in TeamCallIds |-> IdleTeamCall]

SpecFrame == InitFrame /\ [][NextFrame]_vars

(* ---- claims about the location-update handler ---- *)

\* C3: for every packet whose lookups have all been answered, either
\* updateLocation was called exactly once and no MESSAGE_RESPONSE was sent,
\* or exactly one MESSAGE_RESPONSE was sent and updateLocation was not
\* called; never both, never neither.
C3_OneOutcome ==
    \A p \in DOMAIN pkt :
        /\ pkt[p].upd + pkt[p].errs <= 1
        /\ (Received(p) /\ PacketQuiet(p)) =>
              \/ pkt[p].upd = 1 /\ pkt[p].errs = 0
              \/ pkt[p].upd = 0 /\ pkt[p].errs = 1

\* a packet that went through all three branches and updated its live user
C3_Witness ==
    \E p \in DOMAIN pkt :
        PacketQuiet(p) /\ pkt[p].pc = "done" /\ pkt[p].upd = 1 /\ pkt[p].errs = 0

\* C4: while one packet is handled at most one MESSAGE_RESPONSE is sent,
\* whichever of the stage, role and live-game branches fail and in whatever
\* order they complete.
C4_AtMostOneError == \A p \in DOMAIN pkt : pkt[p].errs <= 1

\* all three branches of one packet failed and one message was sent
C4_Witness ==
    \E p \in DOMAIN pkt :
        /\ pkt[p].stageBr = "fail" /\ pkt[p].roleBr = "fail" /\ pkt[p].liveBr = "fail"
        /\ pkt[p].errs = 1

\* C5: updateLocation is called only after the stage was answered active,
\* the role player or special, getGame gave a live game and getUser a live
\* user; it is called with the coordinate parsed from the packet.  A packet
\* with a failed branch mutates nothing, and a stored location stems from
\* such a call.
C5_UpdateOnlyWhenValid ==
    /\ \A p \in DOMAIN pkt :
        /\ pkt[p].upd >= 1 =>
              /\ pkt[p].stageAns = "active" /\ pkt[p].roleAns = "plays"
              /\ pkt[p].liveBr = "ok" /\ pkt[p].liveGame # NoInst
              /\ pkt[p].parsed /\ pkt[p].coord # Null
              /\ pkt[p].updCoord = pkt[p].coord
        /\ ("fail" \in {pkt[p].stageBr, pkt[p].roleBr, pkt[p].liveBr}) => pkt[p].upd = 0
        /\ pkt[p].pc = "getUser" =>
              pkt[p].stageBr = "ok" /\ pkt[p].roleBr = "ok" /\ pkt[p].liveBr = "ok"
    /\ \A i \in InstIds, u \in Users :
        live[i][u] # Null =>
            \E p \in DOMAIN pkt :
                /\ pkt[p].upd = 1 /\ pkt[p].liveGame = i /\ pkt[p].user = u
                /\ pkt[p].updCoord = live[i][u]

\* a live user holds the coordinate of a packet whose branches all passed
C5_Witness ==
    \E p \in DOMAIN pkt :
        /\ pkt[p].upd = 1 /\ pkt[p].stageBr = "ok" /\ pkt[p].roleBr = "ok"
        /\ pkt[p].liveBr = "ok"
        /\ live[pkt[p].liveGame][pkt[p].user] = pkt[p].coord

\* C6: when two valid packets of one user for one game are received in the
\* order 1, 2 and both have updated the same live user, the stored
\* coordinate is that of packet 2.
C6_LastArrivalWins ==
    \A p, q \in DOMAIN pkt :
        (/\ p < q
         /\ pkt[p].upd = 1 /\ pkt[q].upd = 1
         /\ pkt[p].user = pkt[q].user /\ pkt[p].gid = pkt[q].gid
         /\ pkt[p].liveGame = pkt[q].liveGame)
        => live[pkt[q].liveGame][pkt[q].user] = pkt[q].coord

(* ---- specifications of parts of the registry ---- *)
\* getGame calls only
NextGetGame ==
    \/ \E g \in GameIds : GetGameCall(g)
    \/ \E c \in GetIds : GetGameById(c)
    \/ \E c \in GetIds : GetGameStage(c)

SpecGetGame == Init /\ [][NextGetGame]_vars

\* getGame calls while games are unloaded
NextLookup ==
    \/ \E g \in GameIds : GetGameCall(g)
    \/ \E c \in GetIds : GetGameById(c)
    \/ \E c \in GetIds : GetGameStage(c)
    \/ \E g \in GameIds : UnloadGameCall(g)
    \/ \E i \in InstIds : UnloadGameNamed(i)
    \/ UnloadCall

SpecLookup == Init /\ [][NextLookup]_vars

\* load() and direct loadGame calls
NextLoad ==
    \/ LoadCall
    \/ LoadQueried
    \/ \E g \in GameIds : LoadGameCall(g)
    \/ \E t \in TaskIds : LoadGameLoaded(t)
    \/ \E t \in TaskIds : LoadGameNamed(t)
    \/ \E i \in InstIds : UnloadGameNamed(i)

SpecLoad == Init /\ [][NextLoad]_vars

(* ---- claims about the registry ---- *)
GameCount(g) == Cardinality(GameIndexes(g))

\* C1: two getGame calls for one identity that both went to the store (the
\* game was not loaded when either was called) and both found the stage
\* active receive the same instance, and the registry holds no more than one
\* LiveGame of that identity.
C1_ConcurrentGetGameUnique ==
    \A c, d \in GetIds :
        (/\ c # d
         /\ gg[c].pc = "done" /\ gg[d].pc = "done"
         /\ gg[c].gid = gg[d].gid
         /\ gg[c].lookups = 2 /\ gg[d].lookups = 2
         /\ gg[c].res = "game" /\ gg[d].res = "game")
        => /\ gg[c].inst = gg[d].inst
           /\ GameCount(gg[c].gid) <= 1

\* C2: in every reachable state the games list holds at most one LiveGame
\* per game identity.
C2_AtMostOnePerIdentity == \A g \in GameIds : GameCount(g) <= 1

\* C8: a getGame call for a loaded game calls back at once with the first
\* registered instance and asks the store nothing; otherwise it asks the
\* store, and when the answer arrives it appends and returns a new LiveGame
\* only for an active stage, calls back (null, null) for any other stage and
\* the error for a failed lookup, leaving the list as it was in both cases.
C8_GetGameStep ==
    \A c \in GetIds :
        /\ (gg[c].pc = "idle" /\ gg'[c].pc # "idle") =>
              /\ games' = games
              /\ IF GetLoadedGame(gg'[c].gid) # NoInst
                 THEN /\ gg'[c].pc = "done" /\ gg'[c].res = "game"
                      /\ gg'[c].inst = GetLoadedGame(gg'[c].gid)
                      /\ gg'[c].lookups = 0 /\ gg'[c].cbs = 1
                 ELSE /\ gg'[c].pc = "byId" /\ gg'[c].cbs = 0
        /\ (gg[c].pc \in {"byId", "stage"} /\ gg'[c].pc = "done") =>
              /\ gg'[c].cbs = 1
              /\ gg'[c].res \in {"game", "null", "err"}
              /\ gg'[c].res = "game" =>
                    /\ gg'[c].stageAns = "active"
                    /\ \A i \in 1..Len(games) : games[i].inst # gg'[c].inst
                    /\ games' = Append(games, NewGame(gg[c].gid, gg'[c].inst))
              /\ gg'[c].res = "null" =>
                    gg'[c].stageAns = "inactive" /\ games' = games
              /\ gg'[c].res = "err" => games' = games
        /\ (gg[c].pc = "byId" /\ gg'[c].pc = "stage") => games' = games

C8_GetGame == [][C8_GetGameStep]_vars

\* one call asked the store, got an active stage and registered a LiveGame;
\* a later call for the same game was answered from the list with no lookup
C8_Witness ==
    \E c, d \in GetIds :
        /\ gg[c].pc = "done" /\ gg[c].res = "game" /\ gg[c].lookups = 0
        /\ gg[d].pc = "done" /\ gg[d].res = "game" /\ gg[d].stageAns = "active"
        /\ gg[c].inst = gg[d].inst /\ gg[c].gid = gg[d].gid

\* C9: when the load of a loadGame call fails, the callback gets the error
\* once and at that moment no LiveGame of that identity is registered.
C9_FailedLoadLeavesNone ==
    \A t \in TaskIds :
        lt[t].res = "err" => lt[t].cbs = 1 /\ ~lt[t].regAtFail

\* C10: the callback of load() is invoked at most once; once a per-game load
\* has failed it has received exactly one error, that of the first failure,
\* and it is not called with success.
C10_LoadCallbackOnce ==
    /\ la.cbOk + la.cbErr <= 1
    /\ Len(la.failed) >= 1 =>
          la.cbErr = 1 /\ la.cbOk = 0 /\ la.firstErr = la.failed[1]

\* two per-game loads of one load() failed and one error was reported
C10_Witness == Len(la.failed) >= 2 /\ la.cbErr = 1 /\ la.n >= 2

(* ---- claims about the frame of ingest and broadcast ---- *)

\* C7 as stated: no step of handling a packet or of a broadcast cycle
\* changes the games list.
C7_RegistryUntouched == [][games' = games]_vars

\* C7, amended: a broadcast step never changes the games list; a step of
\* handling a packet never removes or reorders an entry, and changes the
\* list only when the handler's getGame call, issued while the game was not
\* loaded, is answered with the active stage: it then appends one new
\* LiveGame of the packet's game.  A packet for a loaded game issues no
\* getGame lookup at all.
C7_FrameStep ==
    /\ bc' # bc => games' = games
    /\ pkt' # pkt /\ gg' = gg => games' = games
    /\ \A p \in DOMAIN pkt :
          (pkt[p].pc = "byId" /\ pkt'[p].pc = "join"
              /\ GameIndexes(pkt[p].gid) # {}) =>
                /\ gg' = gg /\ pkt'[p].liveBr = "ok"
                /\ \E k \in GameIndexes(pkt[p].gid) :
                      games[k].inst = pkt'[p].liveGame
    /\ games' # games =>
          \E c \in GetIds :
              /\ gg[c].caller \in DOMAIN pkt
              /\ gg[c].pc = "stage" /\ gg'[c].pc = "done"
              /\ gg'[c].stageAns = "active"
              /\ gg[c].gid = pkt[gg[c].caller].gid
              /\ games' = Append(games, NewGame(gg[c].gid, gg'[c].inst))

C7_Frame == [][C7_FrameStep]_vars

\* a broadcast cycle has sent a packet and the getGame call of a location
\* packet has registered a game
C7_Witness ==
    /\ \E v \in DOMAIN bc.view : Len(bc.view[v].packets) >= 1
    /\ \E c \in GetIds :
          gg[c].caller # 0 /\ gg[c].res = "game" /\ gg[c].lookups = 2
    /\ Len(games) >= 2

(* ---- claims about unloadGame ---- *)
\* the entries of list s that are not of identity g, in their order
OtherGames(s, g) == SelectSeq(s, LAMBDA e : e.id # g)

\* C13: a step of unloadGame(g) leaves no LiveGame of identity g registered,
\* whatever becomes of the name lookup it started, and keeps the LiveGames of
\* the other identities in their order.
C13_UnloadGameStep ==
    \A g \in GameIds :
        UnloadGameCall(g) =>
            /\ \A i \in 1..Len(games') : games'[i].id # g
            /\ OtherGames(games', g) = OtherGames(games, g)

C13_UnloadGameRemoves == [][C13_UnloadGameStep]_vars

(* ---- claims about load() ---- *)
\* a direct loadGame call for the game of task t made after load() got the
\* store's list (it unloads what task t registered)
ReloadedAfter(t) ==
    \E d \in TaskIds :
        /\ lt[d].owner = "direct" /\ lt[d].gid = lt[t].gid
        /\ lt[d].late

Registered(i) == \E k \in 1..Len(games) : games[k].inst = i

\* C11: in a load() every game whose own load succeeded is registered,
\* whether or not the load of a sibling failed and whichever completed first.
C11_SiblingsRegistered ==
    \A t \in TaskIds :
        (/\ lt[t].owner = "load"
         /\ lt[t].pc \in {"name", "done"} /\ lt[t].res # "err"
         /\ ~ReloadedAfter(t))
        => Registered(lt[t].inst)

\* one game of the load() failed and a sibling that succeeded is registered
C11_Witness ==
    \E t, f \in TaskIds :
        /\ lt[t].owner = "load" /\ lt[f].owner = "load"
        /\ lt[f].res = "err" /\ lt[t].res = "ok"
        /\ la.cbErr = 1
        /\ Registered(lt[t].inst)

\* no other registry operation overlaps the load(): no loadGame was in
\* flight when the store's list arrived and none was called afterwards
LoadAlone(l, tasks) ==
    /\ ~l.busy
    /\ \A t \in TaskIds : tasks[t].owner = "direct" => ~tasks[t].late

\* the games of the store's list: load() started one loadGame for each
ActiveList(tasks) == {tasks[t].gid : t \in {x \in TaskIds : tasks[x].owner = "load"}}

\* C12: when load() reports success and nothing else touched the registry
\* meanwhile, the list holds one LiveGame for each game of the store's list
\* and nothing else.
C12_FullReplaceStep ==
    (la.cbOk = 0 /\ la'.cbOk = 1 /\ LoadAlone(la', lt')) =>
        /\ Len(games') = Cardinality(ActiveList(lt'))
        /\ {games'[k].id : k \in 1..Len(games')} = ActiveList(lt')
        /\ \A k \in 1..Len(games') :
              \E t \in TaskIds : lt'[t].owner = "load" /\ lt'[t].inst = games'[k].inst

ClientFired(c) ==
    [c EXCEPT !.fires = @ + 1, !.firedAt = c.latch.resolved,
              !.pendAt = c.latch.pending]

\* latch.add()
ClientAdd ==
    /\ cl.latch.pending < MaxAdds
    /\ cl' = [cl EXCEPT !.latch = LatchAdd(@),
                        !.ordered = @ /\ cl.latch.resolved = 0]
    /\ UNCHANGED <<games, nextInst, gg, lt, la, pkt, live, bc, members, un, sd, vz, lu,
                 rd, tm>>

\* latch.resolve(), never more often than add()
ClientResolve ==
    /\ cl.latch.resolved < cl.latch.pending
    /\ LET c1 == [cl EXCEPT !.latch = LatchResolve(@)]
       IN  cl' = IF LatchResolveFires(cl.latch) THEN ClientFired(c1) ELSE c1
    /\ UNCHANGED <<games, nextInst, gg, lt, la, pkt, live, bc, members, un, sd, vz, lu,
                 rd, tm>>

\* latch.then(continuation), once in a cycle
ClientThen ==
    /\ ~cl.latch.cont
    /\ LET c1 == [cl EXCEPT !.latch = LatchThen(@), !.thenAt = cl.latch.pending]
       IN  cl' = IF LatchThenFires(cl.latch) THEN ClientFired(c1) ELSE c1
    /\ UNCHANGED <<games, nextInst, gg, lt, la, pkt, live, bc, members, un, sd, vz, lu,
                 rd, tm>>

\* latch.identity(): the next cycle of the same latch starts
ClientIdentity ==
    /\ cl.cycle < MaxCycles
    /\ cl' = [NewClient EXCEPT !.latch = LatchIdentity(cl.latch),
                               !.cycle = cl.cycle + 1,
                               !.prevAdds = cl.latch.pending,
                               !.prevResolves = cl.latch.resolved,
                               !.prevFired = cl.fires > 0]
    /\ UNCHANGED <<games, nextInst, gg, lt, la, pkt, live, bc, members, un, sd, vz, lu,
                 rd, tm>>

NextLatch == ClientAdd \/ ClientResolve \/ ClientThen \/ ClientIdentity

SpecLatch == Init /\ [][NextLatch]_vars

\* the cycle follows the discipline of the callers: every add() before the
\* first resolve(), and then() not on an empty latch
CycleInOrder == cl.ordered /\ cl.latch.pending >= 1 /\ cl.thenAt # 0

\* the continuation ran once, at the resolve that made the counts equal, if
\* then() was called and the counts are equal; otherwise it did not run
FiredOnceAtLast ==
    IF cl.latch.cont /\ cl.latch.resolved = cl.latch.pending
    THEN cl.fires = 1 /\ cl.firedAt = cl.latch.pending /\ cl.pendAt = cl.latch.pending
    ELSE cl.fires = 0

\* C14: on a fresh latch, N >= 1 adds followed by resolves fire the
\* continuation set with then() exactly once, at the Nth resolve and not
\* before.
C14_SingleFire == (cl.cycle = 1 /\ CycleInOrder) => FiredOnceAtLast

\* three adds, three resolves, one run of the continuation
C14_Witness ==
    /\ cl.cycle = 1 /\ CycleInOrder
    /\ cl.latch.pending = MaxAdds /\ cl.latch.resolved = MaxAdds
    /\ cl.thenAt = MaxAdds /\ cl.fires = 1 /\ cl.firedAt = MaxAdds

\* C15: after identity() on a latch that has fired, the new cycle fires its
\* continuation exactly once, at its last resolve, whatever the counts of
\* the earlier cycle were.
C15_Reuse == (cl.cycle > 1 /\ cl.prevFired /\ CycleInOrder) => FiredOnceAtLast

\* a latch that fired after two adds is reset and fires again after one
C15_Witness ==
    /\ cl.cycle = 2 /\ cl.prevFired /\ cl.prevAdds = 2 /\ cl.prevResolves = 2
    /\ CycleInOrder /\ cl.latch.pending = 1 /\ cl.latch.resolved = 1
    /\ cl.fires = 1

(* ---- a broadcast cycle on its own ---- *)
NextBroadcast ==
    \/ BroadcastCall
    \/ \E v \in DOMAIN bc.view : BroadcastGameState(v)
    \/ \E q \in DOMAIN bc.pair : BroadcastVisible(q)
    \/ \E q \in DOMAIN bc.pair : BroadcastName(q)

\* game 1 is loaded with any set of live users, game 2 with none
InitBroadcast ==
    /\ games = <<NewGame(1, 1), NewGame(2, 2)>>
    /\ nextInst = 3
    /\ \E M \in SUBSET Users :
          members = [i \in InstIds |-> IF i = 1 THEN M ELSE {}]
    /\ gg = [c \in GetIds |-> IdleGet]
    /\ lt = [t \in TaskIds |-> IdleTask]
    /\ la = IdleLoad
    /\ pkt = [p \in PacketIds |-> NewPacket]
    /\ live = [i \in InstIds |-> [u \in Users |-> Null]]
    /\ bc = IdleBroadcast
    /\ un = {}
    /\ cl = NewClient
    /\ sd = IdleSend
    /\ vz = NoPair
    /\ lu = NewLiveUser
    /\ rd = NewRedis
    /\ tm = [c \in TeamCallIds |-> IdleTeamCall]

SpecBroadcast == InitBroadcast /\ [][NextBroadcast]_vars

\* the (viewer, peer) lookups of viewer v
PairsOf(v) == {q \in DOMAIN bc.pair : q[1] = v}

\* the peers that isVisibleFor reported visible for viewer v
VisiblePeers(v) == {q[2] : q \in {r \in PairsOf(v) : bc.pair[r] \in {"name", "listed", "threw", "nameError"}}}

\* no lookup of the cycle has failed
AllLookupsFine ==
    /\ \A v \in DOMAIN bc.view : bc.view[v].st # "failed"
    /\ \A q \in DOMAIN bc.pair : bc.pair[q] \notin {"error", "nameError"}

SeqSet(s) == {s[k] : k \in 1..Len(s)}

\* the lookups of viewer v that have not been answered, or not been asked
PairsOpen(v) == {q \in PairsOf(v) : bc.pair[q] \in {"idle", "visible", "name"}}

\* the peers of viewer v reported visible whose name was fetched
NamedPeers(v) == {q[2] : q \in {r \in PairsOf(v) : bc.pair[r] \in {"listed", "threw"}}}

\* the packets sent to viewer v list exactly the peers of set P, each once
PacketsList(v, P) ==
    \A k \in 1..Len(bc.view[v].packets) :
        /\ SeqSet(bc.view[v].packets[k]) = P
        /\ Len(bc.view[v].packets[k]) = Cardinality(P)

(* ---- claims about the broadcast cycle ---- *)
\* C16: in a cycle whose lookups all succeed every live user of every loaded
\* game is a viewer, no viewer is sent more than one GAME_LOCATIONS_UPDATE
\* packet, and a viewer whose user state was fetched has been sent one.
C16_OnePacketEach ==
    (bc.pc = "run" /\ AllLookupsFine) =>
        /\ DOMAIN bc.view = Viewers
        /\ \A v \in DOMAIN bc.view :
              /\ Len(bc.view[v].packets) <= 1
              /\ bc.view[v].st = "peers" => Len(bc.view[v].packets) = 1

\* two viewers, every peer visible and named, one packet each
C16_Witness ==
    /\ bc.pc = "run" /\ AllLookupsFine
    /\ Cardinality(DOMAIN bc.view) = 2
    /\ \A q \in DOMAIN bc.pair : bc.pair[q] = "listed"
    /\ \A v \in DOMAIN bc.view : Len(bc.view[v].packets) = 1

\* C17: when all lookups succeed, a packet is sent to a viewer only after
\* every visibility and name lookup of that viewer is answered, and its users
\* list holds exactly the peers reported visible, each once.
C17_ListsVisiblePeers ==
    AllLookupsFine =>
        \A v \in DOMAIN bc.view :
            bc.view[v].packets # << >> =>
                PairsOpen(v) = {} /\ PacketsList(v, VisiblePeers(v))

\* C18: a viewer with a failed visibility or name lookup, once its other
\* lookups are answered, has one packet listing its other visible peers, and
\* the packets of the viewers without a failed lookup list their visible
\* peers.
C18_FailedPairDropsOnlyPeer ==
    (/\ \A v \in DOMAIN bc.view : bc.view[v].st = "peers"
     /\ \E q \in DOMAIN bc.pair : bc.pair[q] \in {"error", "nameError"}) =>
        \A v \in DOMAIN bc.view :
            PairsOpen(v) = {} =>
                /\ Len(bc.view[v].packets) = 1
                /\ PacketsList(v, NamedPeers(v))

\* C19: a viewer whose user state lookup failed is sent no packet, and every
\* other viewer whose user state was fetched is asked for its peers and is
\* sent one packet that, once its lookups are answered, lists its visible
\* peers.
C19_FailedRoleSkipsOnlyViewer ==
    (/\ \E v \in DOMAIN bc.view : bc.view[v].st = "failed"
     /\ \A q \in DOMAIN bc.pair : bc.pair[q] \notin {"error", "nameError"}) =>
        \A v \in DOMAIN bc.view :
            /\ bc.view[v].st = "failed" => bc.view[v].packets = << >>
            /\ bc.view[v].st = "peers" =>
                  /\ Len(bc.view[v].packets) = 1
                  /\ \A q \in PairsOf(v) : bc.pair[q] # "idle"
                  /\ PairsOpen(v) = {} => PacketsList(v, VisiblePeers(v))

\* C20: a loaded game without users has no viewer, and a cycle over games
\* without users calls back without an error; a viewer for which every peer
\* was reported hidden has been sent one packet with an empty users list.
C20_EmptySets ==
    bc.pc = "run" =>
        /\ \A v \in DOMAIN bc.view : members[v[1]] # {}
        /\ DOMAIN bc.view = {} => bc.cbErr = 0 /\ bc.cbOk = 1
        /\ \A v \in DOMAIN bc.view :
              (bc.view[v].st = "peers" /\ \A q \in PairsOf(v) : bc.pair[q] = "hidden")
              => bc.view[v].packets = << << >> >>

\* game 2 is loaded without users; a viewer of game 1 sees no peer and was
\* sent the empty list
C20_Witness ==
    /\ bc.pc = "run"
    /\ \E k \in 1..Len(games) : members[games[k].inst] = {}
    /\ \E v \in DOMAIN bc.view :
          /\ bc.view[v].st = "peers"
          /\ Cardinality(PairsOf(v)) = 2
          /\ \A q \in PairsOf(v) : bc.pair[q] = "hidden"
          /\ bc.view[v].packets = << << >> >>

\* every lookup the cycle issued has been answered
BroadcastLookupsDone ==
    /\ \A v \in DOMAIN bc.view : bc.view[v].st # "state"
    /\ \A q \in DOMAIN bc.pair : bc.pair[q] \notin {"visible", "name"}

\* C21: once every lookup a broadcastData cycle issued is answered, its
\* callback has been invoked exactly once, with null when all lookups
\* succeeded and with an error otherwise.
C21_BroadcastCallbackOnce ==
    (bc.pc = "run" /\ BroadcastLookupsDone) =>
        /\ bc.cbOk + bc.cbErr = 1
        /\ AllLookupsFine => bc.cbOk = 1
        /\ ~AllLookupsFine => bc.cbErr = 1

(* ---- GameManager.sendGameData ---- *)
\* sendGameData(game, user, sockets, callback) up to its first lookup: the
\* stage is asked for and the sockets parameter is converted to an array
SendGameDataCall ==
    /\ sd.pc = "idle"
    /\ \E g \in GameIds, u \in SessionUsers, raw \in RawSockets :
        sd' = [IdleSend EXCEPT !.pc = "stage", !.gid = g, !.user = u,
                               !.given = raw, !.sockets = SocketsArray(raw)]
    /\ UNCHANGED <<games, nextInst, gg, lt, la, pkt, live, bc, members, un, cl, vz, lu,
                 rd, tm>>

\* the active branch of the getStage callback: the user state and the live
\* game are asked for and the continuation is set; getGame answers at once
\* when the game is loaded
SendJoin(r, loaded) ==
    LET r2 == [r EXCEPT !.pc = "join", !.latch = LatchAdd(LatchAdd(NewLatch)),
                        !.userBr = "wait", !.gameBr = "wait"]
        r3 == IF loaded # NoInst THEN SendLiveGame(r2, "game", loaded) ELSE r2
    IN  IF LatchThenFires(r3.latch)
        THEN SendPacket([r3 EXCEPT !.latch = LatchThen(@)])
        ELSE [r3 EXCEPT !.latch = LatchThen(@)]

\* callback of game.getStage in sendGameData
SendStage ==
    /\ sd.pc = "stage"
    /\ \E err \in BOOLEAN, stage \in Stages :
        LET r0 == [sd EXCEPT !.stageAns = StageAnswer(err, stage),
                             !.stage = IF err THEN @ ELSE stage]
            r == IF err THEN r0 ELSE SendSetStage(r0, stage)
        IN  IF err
            THEN sd' = SendError([r EXCEPT !.pc = "done"]) /\ gg' = gg
            ELSE IF stage # StageActive
            THEN sd' = SendPacket([r EXCEPT !.pc = "done"]) /\ gg' = gg
            ELSE /\ GetLoadedGame(sd.gid) = NoInst => FreeGet # {}
                 /\ sd' = SendJoin(r, GetLoadedGame(sd.gid))
                 /\ IF GetLoadedGame(sd.gid) # NoInst
                    THEN gg' = gg
                    ELSE gg' = [gg EXCEPT ![MinOf(FreeGet)] =
                                  GetGameEntered(MinOf(FreeGet), sd.gid, SendCaller)]
    /\ UNCHANGED <<games, nextInst, lt, la, pkt, live, bc, members, un, cl, vz, lu,
                 rd, tm>>

\* callback of game.getUserState in sendGameData
SendUserState ==
    /\ sd.userBr = "wait"
    /\ \E err \in BOOLEAN, userState \in [player : BOOLEAN, special : BOOLEAN] :
        sd' = IF err THEN SendError([sd EXCEPT !.userBr = "err"])
              ELSE SendResolve(SendCanBuild([sd EXCEPT !.userBr = "ok",
                                                       !.player = userState.player],
                                            userState))
    /\ UNCHANGED <<games, nextInst, gg, lt, la, pkt, live, bc, members, un, cl, vz, lu,
                 rd, tm>>

\* callback of liveGame.getUser in sendGameData
SendLiveUser ==
    /\ sd.userLk = "wait"
    /\ \E res \in {"err", "null", "user"} :
        sd' = IF res = "err" THEN SendError([sd EXCEPT !.userLk = "err"])
              ELSE IF res = "null" THEN SendResolve([sd EXCEPT !.userLk = "null"])
              ELSE SendResolve([sd EXCEPT !.userLk = "ok", !.latch = LatchAdd(@),
                                          !.costBr = "wait"])
    /\ UNCHANGED <<games, nextInst, gg, lt, la, pkt, live, bc, members, un, cl, vz, lu,
                 rd, tm>>

\* callback of liveGame.calculateFactoryCost in sendGameData
SendFactoryCost ==
    /\ sd.costBr = "wait"
    /\ \E err \in BOOLEAN, cost \in Costs :
        sd' = IF err THEN SendError([sd EXCEPT !.costBr = "err"])
              ELSE SendResolve(SendCost([sd EXCEPT !.costBr = "ok", !.cost = cost],
                                        cost))
    /\ UNCHANGED <<games, nextInst, gg, lt, la, pkt, live, bc, members, un, cl, vz, lu,
                 rd, tm>>

NextSend ==
    \/ SendGameDataCall
    \/ SendStage
    \/ SendUserState
    \/ \E c \in GetIds : GetGameById(c)
    \/ \E c \in GetIds : GetGameStage(c)
    \/ SendLiveUser
    \/ SendFactoryCost

SpecSend == InitIngest /\ [][NextSend]_vars

\* no lookup of the call has failed
SendAllFine ==
    "err" \notin {sd.userBr, sd.gameBr, sd.userLk, sd.costBr} /\ sd.stageAns # "error"

(* ---- claims about sendGameData ---- *)
\* C22: for an active game whose lookups all succeed the packet is sent by
\* one run of the sending function, and that run happens when no lookup of
\* the call is in flight any more, not before.
C22_SendOnceAfterLookups ==
    (sd.stageAns = "active" /\ SendAllFine) =>
        /\ sd.sends = (IF SendOpen(sd) THEN 0 ELSE 1)
        /\ ~sd.openAtSend

\* the live game was looked up in the store, the live user and the factory
\* cost were fetched, and the packet went out once
C22_Witness ==
    /\ sd.stageAns = "active" /\ SendAllFine
    /\ sd.userBr = "ok" /\ sd.gameBr = "ok" /\ sd.userLk = "ok" /\ sd.costBr = "ok"
    /\ \E c \in GetIds : gg[c].caller = SendCaller /\ gg[c].res = "game"
    /\ sd.sends = 1

\* C23: once every lookup of a sendGameData call is answered its callback
\* has been invoked exactly once: with null, after the packet was sent, or
\* with the error.
C23_SendCallbackOnce ==
    (sd.pc \in {"join", "done"} /\ ~SendOpen(sd)) =>
        /\ sd.cbOk + sd.cbErr = 1
        /\ sd.cbOk = 1 => sd.sends = 1

\* the destinations the sockets parameter asks for
Destinations(raw, u) ==
    IF raw.kind = "socket" THEN <<[kind |-> "socket", to |-> raw.val[1]]>>
    ELSE IF raw.kind = "array" /\ Len(raw.val) > 0
    THEN [k \in 1..Len(raw.val) |-> [kind |-> "socket", to |-> raw.val[k]]]
    ELSE <<[kind |-> "user", to |-> u]>>

\* C24: the packet goes once to each socket supplied and not to the user's
\* channel, or once to the user's channel when no socket is supplied.
C24_OneDestinationKind ==
    /\ sd.sends <= 1
    /\ sd.sends = 0 => sd.out = << >>
    /\ sd.sends = 1 => sd.out = Destinations(sd.given, sd.user)

\* a single socket that was not passed as an array got the packet
C24_Witness ==
    /\ sd.sends = 1 /\ sd.given.kind = "socket"
    /\ sd.out = <<[kind |-> "socket", to |-> "s1"]>>

(* ---- claims about the first checks of the handler ---- *)
\* packet p was answered at once: no lookup, no parsed coordinate, no update
RejectedAtOnce(p) ==
    /\ pkt[p].pc = "done" /\ pkt[p].errs = 1
    /\ pkt[p].lookups = 0 /\ pkt[p].upd = 0 /\ ~pkt[p].parsed
    /\ \A c \in GetIds : gg[c].caller # p

\* C25: a packet without the game field or without the location field is
\* answered at once with one notification of callbackError, with or without a
\* valid session: no lookup is issued and no live user is changed.
C25_MalformedRejected ==
    \A p \in DOMAIN pkt :
        (Received(p) /\ (~pkt[p].hasGame \/ ~pkt[p].hasLoc)) =>
            RejectedAtOnce(p) /\ pkt[p].calledBack

\* a packet that has a location but no game, on a socket without a session
C25_Witness ==
    \E p \in DOMAIN pkt :
        /\ Received(p) /\ ~pkt[p].hasGame /\ pkt[p].hasLoc /\ ~pkt[p].auth
        /\ pkt[p].errs = 1 /\ pkt[p].calledBack

\* C26: a packet with both fields on a socket without a valid session gets
\* one notification and nothing else: the location is not parsed, no lookup
\* is issued and no live user is changed.
C26_UnauthenticatedRejected ==
    \A p \in DOMAIN pkt :
        (Received(p) /\ pkt[p].hasGame /\ pkt[p].hasLoc /\ ~pkt[p].auth) =>
            RejectedAtOnce(p) /\ ~pkt[p].calledBack

\* a well-formed packet without a session was answered
C26_Witness ==
    \E p \in DOMAIN pkt :
        /\ Received(p) /\ pkt[p].hasGame /\ pkt[p].hasLoc /\ ~pkt[p].auth
        /\ pkt[p].errs = 1 /\ pkt[p].pc = "done"

(* ---- the visibility decision for a pair of live users ---- *)
\* isVisibleFor is asked in both directions
VisibilityAsk ==
    /\ ~vz.asked
    /\ vz' = [vz EXCEPT !.asked = TRUE, !.ab = IsVisibleFor(vz.b, vz.a),
                        !.ba = IsVisibleFor(vz.a, vz.b)]
    /\ UNCHANGED <<games, nextInst, gg, lt, la, pkt, live, bc, members, un, cl, sd, lu,
                 rd, tm>>

NextVisibility == VisibilityAsk

\* any two roles for the two users
InitVisibility ==
    /\ games = << >>
    /\ nextInst = 1
    /\ gg = [c \in GetIds |-> IdleGet]
    /\ lt = [t \in TaskIds |-> IdleTask]
    /\ la = IdleLoad
    /\ pkt = [p \in PacketIds |-> NewPacket]
    /\ live = [i \in InstIds |-> [u \in Users |-> Null]]
    /\ bc = IdleBroadcast
    /\ members = [i \in InstIds |-> {}]
    /\ un = {}
    /\ cl = NewClient
    /\ sd = IdleSend
    /\ \E ra, rb \in Roles : vz = [NoPair EXCEPT !.a.role = ra, !.b.role = rb]
    /\ lu = NewLiveUser
    /\ rd = NewRedis
    /\ tm = [c \in TeamCallIds |-> IdleTeamCall]

SpecVisibility == InitVisibility /\ [][NextVisibility]_vars

\* C27: two plain players on different teams do not see each other, in
\* either direction; two plain players on the same team see each other, in
\* both directions.
C27_PlainPlayersSymmetric ==
    (/\ vz.asked /\ PlainPlayer(vz.a.role) /\ PlainPlayer(vz.b.role)
     /\ vz.a.role.team # "none" /\ vz.b.role.team # "none") =>
        IF vz.a.role.team = vz.b.role.team
        THEN vz.ab /\ vz.ba
        ELSE ~vz.ab /\ ~vz.ba

\* two plain players of teams t1 and t2 were decided on
C27_Witness ==
    /\ vz.asked /\ PlainPlayer(vz.a.role) /\ PlainPlayer(vz.b.role)
    /\ vz.a.role.team = "t1" /\ vz.b.role.team = "t2"
    /\ ~vz.ab /\ ~vz.ba

(* ---- one live user and the clock ---- *)
\* time passes
LiveUserTick ==
    /\ lu.ticks < MaxTicks
    /\ \E d \in TickSteps : lu' = [lu EXCEPT !.now = @ + d, !.ticks = @ + 1]
    /\ UNCHANGED <<games, nextInst, gg, lt, la, pkt, live, bc, members, un, cl, sd, vz,
                 rd, tm>>

\* liveUser.updateLocation(coordinate) at the current time
LiveUserUpdate ==
    /\ \E raw \in RawLocations :
        /\ CoordinateParse(raw) # Null
        /\ lu' = LiveUserUpdateLocation(lu, CoordinateParse(raw), lu.now)
    /\ UNCHANGED <<games, nextInst, gg, lt, la, pkt, live, bc, members, un, cl, sd, vz,
                 rd, tm>>

\* liveUser.getLocation() at the current time
LiveUserRead ==
    /\ lu' = [lu EXCEPT !.read = LiveUserGetLocation(lu, lu.now),
                        !.readAt = lu.now, !.current = TRUE,
                        !.sawDecay = @ \/ (lu.coord # Null /\
                                             LiveUserGetLocation(lu, lu.now) = Null)]
    /\ UNCHANGED <<games, nextInst, gg, lt, la, pkt, live, bc, members, un, cl, sd, vz,
                 rd, tm>>

NextDecay == LiveUserTick \/ LiveUserUpdate \/ LiveUserRead

SpecDecay == Init /\ [][NextDecay]_vars

\* a location is stored and no update came after the last read
ReadIsCurrent == lu.current /\ lu.coord # Null

\* C28: a read one millisecond before the end of the decay time returns the
\* stored location and a read one millisecond after it reports none; the
\* stored location is kept, and a read right after a later update returns
\* the new location.
C28_DecayAtRead ==
    /\ ReadIsCurrent =>
          /\ lu.readAt - lu.time = LocationDecayTime - 1 => lu.read = lu.coord
          /\ lu.readAt - lu.time = LocationDecayTime + 1 => lu.read = Null
          /\ lu.readAt = lu.time => lu.read = lu.coord
    /\ lu.sawDecay => lu.coord # Null

\* a read found the location decayed; after a new update a read at the same
\* time returned the new location
C28_Witness ==
    /\ lu.sawDecay /\ ReadIsCurrent
    /\ lu.time > LocationDecayTime /\ lu.readAt = lu.time
    /\ lu.read = lu.coord

(* ---- claims about the callback of load() ---- *)
\* the loadGame calls that load() started
LoadOwned == {t \in TaskIds : lt[t].owner = "load"}

\* C29: when load() started N >= 1 loads and none failed, callback(null) has
\* been invoked once if all N have completed and not at all before; when it
\* has been invoked and no other loadGame overlapped, all N games are in the
\* registry.
C29_NullAfterAllLoaded ==
    (la.pc = "join" /\ la.n >= 1 /\ \A t \in LoadOwned : lt[t].res # "err") =>
        /\ la.cbErr = 0
        /\ la.cbOk = (IF \A t \in LoadOwned : lt[t].pc = "done" THEN 1 ELSE 0)
        /\ (la.cbOk = 1 /\ LoadAlone(la, lt)) =>
              \A t \in LoadOwned : Registered(lt[t].inst)

\* two games were loaded by load() and the callback got null
C29_Witness ==
    /\ la.pc = "join" /\ la.n = 2 /\ la.cbOk = 1 /\ la.cbErr = 0
    /\ Cardinality(LoadOwned) = 2
    /\ \A t \in LoadOwned : lt[t].res = "ok" /\ Registered(lt[t].inst)

\* C30: when the store's list is empty, load() clears the registry and its
\* callback is invoked with null once, in the step that sets the
\* continuation, and never again or with an error.
C30_EmptyListStep ==
    (la'.pc = "join" /\ la'.n = 0) =>
        /\ la'.cbOk = 1 /\ la'.cbErr = 0
        /\ la.pc = "query" => games' = << >>

C30_EmptyList == [][C30_EmptyListStep]_vars

\* a game that loadGame had registered was unloaded by a load() that found
\* no active game and called back with null
C30_Witness ==
    /\ la.pc = "join" /\ la.n = 0 /\ la.cbOk = 1
    /\ games = << >>
    /\ \E d \in TaskIds : lt[d].owner = "direct" /\ lt[d].res = "ok" /\ ~lt[d].late

\* C31: when the query of load() fails, that step reports one error and
\* changes neither the games list nor any loadGame task, and load() does
\* nothing afterwards.
C31_QueryFailedStep ==
    /\ (la.pc = "query" /\ la'.pc = "done") =>
          /\ la'.cbErr = 1 /\ la'.cbOk = 0
          /\ games' = games /\ lt' = lt /\ nextInst' = nextInst
    /\ la.pc = "done" => la' = la

C31_QueryFailed == [][C31_QueryFailedStep]_vars

\* the query failed while a game was registered, and the game is still there
C31_Witness ==
    /\ la.pc = "done" /\ la.cbErr = 1 /\ la.cbOk = 0
    /\ games # << >>
    /\ \A t \in TaskIds : lt[t].owner # "load"

(* ---- claims about the failures and the payload of sendGameData ---- *)
\* the lookups of the call that have failed
SendFailures ==
    Cardinality({b \in {"userBr", "gameBr", "userLk", "costBr"} : sd[b] = "err"})
        + (IF sd.stageAns = "error" THEN 1 ELSE 0)

\* C32: once a lookup of sendGameData has failed, no packet has been or will
\* be sent and the callback has received one error, however many lookups
\* fail and in whatever order they are answered.
C32_FailureOneError ==
    SendFailures >= 1 => (sd.sends = 0 /\ sd.out = << >> /\ sd.cbErr = 1 /\ sd.cbOk = 0)

\* two lookups failed after a third one had succeeded
C32_Witness ==
    /\ SendFailures = 2 /\ sd.userBr = "err" /\ sd.userLk = "err"
    /\ sd.gameBr = "ok" /\ ~SendOpen(sd)
    /\ sd.cbErr = 1 /\ sd.sends = 0

\* C33: every payload sent carries the stage that getStage answered; for
\* an inactive stage it carries nothing else and no user state, live game,
\* live user or cost lookup was made; for an active stage it carries
\* canBuild equal to the player flag of the user state, and it carries the
\* cost, as calculated, exactly when a live game and a live user were found.
C33_Payload ==
    \A k \in 1..Len(sd.sent) :
        LET d == sd.sent[k]
        IN  /\ "stage" \in DOMAIN d /\ d.stage = sd.stage
            /\ sd.stage # StageActive =>
                  /\ DOMAIN d = {"stage"}
                  /\ {sd.userBr, sd.gameBr, sd.userLk, sd.costBr} = {"none"}
                  /\ \A c \in GetIds : gg[c].caller # SendCaller
            /\ sd.stage = StageActive =>
                  /\ "canBuild" \in DOMAIN d /\ d.canBuild = sd.player
                  /\ "cost" \in DOMAIN d <=> (sd.gameBr = "ok" /\ sd.userLk = "ok")
                  /\ "cost" \in DOMAIN d => d.cost = sd.cost

\* an active game's payload went out with canBuild true and a cost
C33_Witness ==
    /\ Len(sd.sent) = 1 /\ sd.stage = StageActive
    /\ DOMAIN sd.sent[1] = {"stage", "canBuild", "cost"}
    /\ sd.sent[1].canBuild /\ sd.sent[1].cost = 2

(* ---- the Redis module: connect() and the client's events ---- *)
\* connect(callback); the callback may be left out
RedisConnect ==
    /\ \E c \in ConnectIds, given \in BOOLEAN :
        /\ rd.call[c].pc = "idle"
        /\ \A b \in ConnectIds : b < c => rd.call[b].pc # "idle"
        /\ LET k == [rd.call[c] EXCEPT !.given = given]
           IN  rd' = IF ~rd.enable
                     THEN [rd EXCEPT !.call[c] = ConnectDisabled(k)]
                     ELSE [rd EXCEPT !.call[c] = [k EXCEPT !.pc = "client"],
                                     !.client = c]
    /\ UNCHANGED <<games, nextInst, gg, lt, la, pkt, live, bc, members, un, cl, sd, vz, lu,
                 tm>>

\* the 'connect' event of a client
RedisOnConnect ==
    /\ Len(rd.hist) < MaxEvents
    /\ \E c \in ConnectIds :
        /\ rd.call[c].pc = "client"
        /\ rd' = ClientEvent(OnConnect(rd, c), "connect")
    /\ UNCHANGED <<games, nextInst, gg, lt, la, pkt, live, bc, members, un, cl, sd, vz, lu,
                 tm>>

\* the 'ready' event of a client
RedisOnReady ==
    /\ Len(rd.hist) < MaxEvents
    /\ \E c \in ConnectIds :
        /\ rd.call[c].pc = "client"
        /\ rd' = ClientEvent(OnReady(rd, c), "ready")
    /\ UNCHANGED <<games, nextInst, gg, lt, la, pkt, live, bc, members, un, cl, sd, vz, lu,
                 tm>>

\* the 'reconnecting' event of a client
RedisOnReconnecting ==
    /\ Len(rd.hist) < MaxEvents
    /\ \E c \in ConnectIds :
        /\ rd.call[c].pc = "client"
        /\ rd' = ClientEvent(OnReconnecting(rd, c), "reconnecting")
    /\ UNCHANGED <<games, nextInst, gg, lt, la, pkt, live, bc, members, un, cl, sd, vz, lu,
                 tm>>

\* the 'error' event of a client
RedisOnError ==
    /\ Len(rd.hist) < MaxEvents
    /\ \E c \in ConnectIds :
        /\ rd.call[c].pc = "client"
        /\ rd' = ClientEvent(OnError(rd, c), "error")
    /\ UNCHANGED <<games, nextInst, gg, lt, la, pkt, live, bc, members, un, cl, sd, vz, lu,
                 tm>>

\* the 'end' event of a client
RedisOnEnd ==
    /\ Len(rd.hist) < MaxEvents
    /\ \E c \in ConnectIds :
        /\ rd.call[c].pc = "client"
        /\ rd' = ClientEvent(OnEnd(rd, c), "end")
    /\ UNCHANGED <<games, nextInst, gg, lt, la, pkt, live, bc, members, un, cl, sd, vz, lu,
                 tm>>

NextRedis ==
    \/ RedisConnect
    \/ RedisOnConnect
    \/ RedisOnReady
    \/ RedisOnReconnecting
    \/ RedisOnError
    \/ RedisOnEnd

\* config.redis.enable is either value
InitRedis ==
    /\ games = << >>
    /\ nextInst = 1
    /\ gg = [c \in GetIds |-> IdleGet]
    /\ lt = [t \in TaskIds |-> IdleTask]
    /\ la = IdleLoad
    /\ pkt = [p \in PacketIds |-> NewPacket]
    /\ live = [i \in InstIds |-> [u \in Users |-> Null]]
    /\ bc = IdleBroadcast
    /\ members = [i \in InstIds |-> {}]
    /\ un = {}
    /\ cl = NewClient
    /\ sd = IdleSend
    /\ vz = NoPair
    /\ lu = NewLiveUser
    /\ \E en \in BOOLEAN : rd = [NewRedis EXCEPT !.enable = en]
    /\ tm = [c \in TeamCallIds |-> IdleTeamCall]

SpecRedis == InitRedis /\ [][NextRedis]_vars

(* ---- claims about the Redis module ---- *)
\* the most recent client event, "none" before the first
LastEvent == IF rd.hist = << >> THEN "none" ELSE rd.hist[Len(rd.hist)]

\* C34: isReady() is true exactly when the most recent client event was
\* 'ready'; it is false before the first event and after a 'connect',
\* 'reconnecting', 'error' or 'end' event.
C34_ReadyTracksEvents == IsReady(rd) <=> LastEvent = "ready"

\* the client was ready and then began to reconnect
C34_Witness ==
    /\ Len(rd.hist) >= 2 /\ rd.hist[Len(rd.hist) - 1] = "ready"
    /\ LastEvent = "reconnecting" /\ ~IsReady(rd)

\* C35: the callback of a connect() call has been invoked at most once,
\* whatever events the client has emitted; when Redis is disabled it has
\* been invoked once with (null, null) and there is no client.
C35_ConnectCallbackOnce ==
    \A c \in ConnectIds :
        LET k == rd.call[c]
        IN  /\ k.ok + k.err + k.none <= 1
            /\ (k.pc = "disabled" /\ k.given) =>
                  (k.none = 1 /\ k.ok = 0 /\ k.err = 0 /\ rd.client = NoClient)

(* ---- GameTeamDatabase.addGameTeam: the call and its callbacks ---- *)
\* addGameTeam(game, teamName, callback): insertOne is started
AddGameTeamCall ==
    /\ \E c \in TeamCallIds, g \in GameIds, n \in TeamNames :
        /\ tm[c].pc = "idle"
        /\ \A b \in TeamCallIds : b < c => tm[b].pc # "idle"
        /\ tm' = [tm EXCEPT ![c] = [IdleTeamCall EXCEPT !.pc = "insert", !.gid = g,
                                                        !.name = n]]
    /\ UNCHANGED <<games, nextInst, gg, lt, la, pkt, live, bc, members, un, cl, sd, vz, lu,
                 rd>>

\* callback of insertOne
TeamInsertDone ==
    /\ \E c \in TeamCallIds, err \in BOOLEAN :
        /\ tm[c].pc = "insert"
        /\ tm' = [tm EXCEPT ![c] = TeamInserted(@, err)]
    /\ UNCHANGED <<games, nextInst, gg, lt, la, pkt, live, bc, members, un, cl, sd, vz, lu,
                 rd>>

\* callback of flushCache
TeamFlushDone ==
    /\ \E c \in TeamCallIds, err \in BOOLEAN :
        /\ tm[c].pc = "flush"
        /\ tm' = [tm EXCEPT ![c] = TeamFlushed(@, err)]
    /\ UNCHANGED <<games, nextInst, gg, lt, la, pkt, live, bc, members, un, cl, sd, vz, lu,
                 rd>>

NextTeam ==
    \/ AddGameTeamCall
    \/ TeamInsertDone
    \/ TeamFlushDone

SpecTeam == Init /\ [][NextTeam]_vars

(* ---- claims about addGameTeam ---- *)
\* C36: a finished addGameTeam call has invoked its callback once and an
\* unfinished one not at all: with the insert error and a null team, the
\* cache flush not started, when the insert failed; with the flush error and
\* no team created when the flush failed; otherwise with a team instance
\* that was created after the flush had completed.
C36_TeamCallbackOnce ==
    \A c \in TeamCallIds :
        LET r == tm[c]
        IN  /\ Len(r.cb) = (IF r.pc = "done" THEN 1 ELSE 0)
            /\ r.pc = "done" =>
                  /\ r.cb[1].err = "insert" =>
                        (r.cb[1].team = "null" /\ r.flushes = 0 /\ r.created = 0)
                  /\ r.cb[1].err = "flush" =>
                        (r.flushes = 1 /\ r.flushed /\ r.created = 0)
                  /\ r.cb[1].err = "null" =>
                        /\ r.cb[1].team = "instance" /\ r.created = 1
                        /\ r.flushes = 1 /\ r.flushed /\ r.createdFlushed

\* one call got its team, another failed at the cache flush
C36_Witness ==
    /\ tm[1].pc = "done" /\ tm[1].cb[1].err = "null" /\ tm[1].created = 1
    /\ tm[2].pc = "done" /\ tm[2].cb[1].err = "flush"

====
